---------------------------- MODULE Spec2Model ----------------------------
(***************************************************************************)
(* FFXV Unlocker: the process patch engine (MemoryEditor + PatternScanner) *)
(* and the MainWindow handlers that drive it.                              *)
(*                                                                         *)
(* Three specifications share the variables below:                         *)
(*   SpecScan  PatternScanner::findPattern applied to bounded inputs;      *)
(*   Spec      the MemoryEditor API driven by an arbitrary caller against  *)
(*             a target process that may exit and restart;                 *)
(*   SpecApp   the MainWindow handlers (buttons, check boxes, the 2 s      *)
(*             poll) driving the same MemoryEditor.                        *)
(*                                                                         *)
(* Sizes are scaled: pages and chunks are a few bytes long, the module a   *)
(* few pages.  Byte values of the code patches are the real ones.          *)
(***************************************************************************)
EXTENDS Integers, Sequences, FiniteSets, TLC

VARIABLES
    \* ---- the target process (environment) ----
    alive,      \* id of the running ffxv_s.exe instance, 0 when none runs
    started,    \* how many instances have been started so far
    mem,        \* target memory of the running instance: address -> byte
    prot,       \* page protection of the running instance: page -> protection
    \* ---- MemoryEditor ----
    handle,     \* m_processHandle: the instance it refers to, 0 = nullptr
    cache,      \* m_patternCache: patch name -> resolved address
    cacheInst,  \* (history) the instance each cache entry was scanned in
    penabled,   \* Patch::enabled per patch
    ienabled,   \* UnlockItem::enabled per item
    benabled,   \* UnlockBundle::enabled per bundle
    \* ---- MainWindow ----
    ui,         \* check boxes, m_autoAttach, whether the slots are connected
    \* ---- observation of the last public call ----
    subject,    \* Spec: the catalogue entry the caller exercises
    last,       \* the last public call: name, argument, result, m_lastError,
                \* the system calls it made and the signals it emitted
    prev,       \* name and result of the public call before it
    \* ---- PatternScanner harness (SpecScan) ----
    scanIn,     \* the inputs of findPattern
    scanOut,    \* whether it was called, and what it returned
    \* ---- the window's thread (SpecLoop) ----
    loop        \* the events posted to it, and the handlers on its stack

vars == << alive, started, mem, prot, handle, cache, cacheInst, penabled,
           ienabled, benabled, ui, subject, last, prev, scanIn, scanOut, loop >>

----------------------------------------------------------------------------
(* Bounds of the model *)

\* SpecScan: longest module range scanned
MaxScanLen == 4
\* SpecScan: longest signature
MaxPatLen == 2
\* SpecScan: largest chunk size tried
MaxChunk == 2
\* Spec, SpecApp: how many target instances may be started
MaxInst == 2
\* Spec, SpecApp: a write fault stops the copy within this many leading bytes
MaxFaultOffset == 2

----------------------------------------------------------------------------
(* Small helpers *)

Min(a, b) == IF a < b THEN a ELSE b

Range(f) == { f[x] : x \in DOMAIN f }

\* the n bytes of memory m starting at address a, as a sequence
Bytes(m, a, n) == [ i \in 1..n |-> m[a + i - 1] ]

\* std::optional's nullopt
Nullopt == -1

\* Sequencing of statements.  One({ G(t) : t \in { e } }) reads "t = e;
\* then G(t)": e is computed once and G runs on its value.
One(S) == CHOOSE r \in S : TRUE

----------------------------------------------------------------------------
(* PatternScanner *)

\* ReadProcessMemory(h, addr, buf, n, &bytesRead): the whole range must be
\* readable or the call fails (ERROR_PARTIAL_COPY).
ReadProcessMemory(m, unreadable, addr, n) ==
    IF \E a \in addr..(addr + n - 1) : a \in unreadable \/ a \notin DOMAIN m
    THEN [ ok |-> FALSE, bytesRead |-> 0, data |-> << >> ]
    ELSE [ ok |-> TRUE, bytesRead |-> n, data |-> Bytes(m, addr, n) ]

\* PatternScanner::matchPattern(data, dataSize, pattern, offset); offset is
\* 0-based as in the code, data is a 1-based sequence
matchPattern(data, dataSize, pattern, offset) ==
    IF offset + Len(pattern) > dataSize
    THEN FALSE
    ELSE \A i \in 0..(Len(pattern) - 1) : data[offset + i + 1] = pattern[i + 1]

\* the inner loop of findPattern: the first i with a match in this chunk
ChunkMatches(data, bytesRead, pattern) ==
    { i \in 0..(bytesRead - Len(pattern)) : matchPattern(data, bytesRead, pattern, i) }

SetMin(S) == CHOOSE x \in S : \A y \in S : x <= y

\* (mutation) the outer loop reading CHUNK_SIZE bytes per chunk, without the
\* pattern.size() bytes of overlap into the next chunk
RECURSIVE FindFromNoOverlap(_, _, _, _, _, _, _)
FindFromNoOverlap(m, unreadable, startAddress, searchSize, pattern, chunk, offset) ==
    IF ~(offset < searchSize)
    THEN Nullopt
    ELSE LET bytesToRead == Min(chunk, searchSize - offset)
             r == ReadProcessMemory(m, unreadable, startAddress + offset, bytesToRead)
             hits == ChunkMatches(r.data, r.bytesRead, pattern)
         IN  IF r.ok /\ hits # {}
             THEN startAddress + offset + SetMin(hits)
             ELSE FindFromNoOverlap(m, unreadable, startAddress, searchSize, pattern,
                                    chunk, offset + chunk)

\* the outer loop of findPattern from `offset` on
RECURSIVE FindFrom(_, _, _, _, _, _, _)
FindFrom(m, unreadable, startAddress, searchSize, pattern, chunk, offset) ==
    IF ~(offset < searchSize)
    THEN Nullopt
    ELSE LET bytesToRead == Min(chunk + Len(pattern), searchSize - offset)
             r == ReadProcessMemory(m, unreadable, startAddress + offset, bytesToRead)
             hits == ChunkMatches(r.data, r.bytesRead, pattern)
         IN  IF ~r.ok
             THEN FindFrom(m, unreadable, startAddress, searchSize, pattern, chunk,
                           offset + chunk)
             ELSE IF hits # {}
                  THEN startAddress + offset + SetMin(hits)
                  ELSE FindFrom(m, unreadable, startAddress, searchSize, pattern,
                                chunk, offset + chunk)

\* PatternScanner::findPattern with the chunk size as a parameter
findPatternChunked(h, m, unreadable, startAddress, searchSize, pattern, chunk) ==
    IF h = 0 \/ Len(pattern) = 0
    THEN Nullopt
    ELSE FindFrom(m, unreadable, startAddress, searchSize, pattern, chunk, 0)


----------------------------------------------------------------------------
(* The target process: address space, pages, images *)

\* bytes per page (scaled from 4096); a bound of the model
PageSize == 8

\* findPattern's CHUNK_SIZE, scaled from 0x10000 (16 pages) to 2 pages
CHUNK_SIZE == 2 * PageSize

\* page 0 is never mapped, so that address 0 is never a match
ModuleBase == PageSize

PageOf(a) == a \div PageSize

\* the pages a region [address, address + size) touches
PagesOf(address, size) == { PageOf(a) : a \in address..(address + size - 1) }

\* filler between the code sites (int3 padding)
Pad(n) == [ i \in 1..n |-> 204 ]

Zeros(n) == [ i \in 1..n |-> 0 ]

\* The code patches.  Signatures, offsets and bytes as documented for
\* ffxv_s.exe: the signature is scanned for, `offset` is added to the match
\* address, `original` and `patched` have the same length.
Unlock1 ==
    [ name     |-> "Unlock1",
      pattern  |-> << 131, 248, 51, 119, 26 >>,           \* 83 F8 33 77 1A
      offset   |-> 3,
      original |-> << 119, 26 >>,                         \* 77 1A
      patched  |-> << 235, 26 >> ]                        \* EB 1A

Unlock2 ==
    [ name     |-> "Unlock2",
      pattern  |-> << 65, 128, 244, 1, 131, 253, 20 >>,   \* 41 80 F4 01 83 FD 14
      offset   |-> 0,
      original |-> << 65, 128, 244, 1, 131, 253, 20 >>,
      patched  |-> << 77, 49, 228, 65, 56, 212, 248 >> ]  \* 4D 31 E4 41 38 D4 F8

Unlock3 ==
    [ name     |-> "Unlock3",
      pattern  |-> << 132, 210, 116, 79, 235, 13 >>,      \* 84 D2 74 4F EB 0D
      offset   |-> 2,
      original |-> << 116, 79 >>,                         \* 74 4F
      patched  |-> << 144, 144 >> ]                       \* 90 90

\* The Twitch URL redirect patch (Patches::getURLPatches): the URL string is
\* its own signature and is overwritten in place; scaled to two bytes.
TwitchURL ==
    [ name     |-> "TwitchURL",
      pattern  |-> << 116, 119 >>,                        \* "tw"
      offset   |-> 0,
      original |-> << 116, 119 >>,
      patched  |-> << 108, 111 >> ]                       \* "lo"

PatchNames == { "Unlock1", "Unlock2", "Unlock3", "TwitchURL" }

PatchDef(n) ==
    CASE n = "Unlock1" -> Unlock1
      [] n = "Unlock2" -> Unlock2
      [] n = "Unlock3" -> Unlock3
      [] n = "TwitchURL" -> TwitchURL

\* module-relative offset of the unlock byte table (scaled from 0x752038)
TableOffset == 3 * PageSize

TableBase == ModuleBase + TableOffset

\* The byte-table unlock items: absolute address, selectable flag
UnlockItems ==
    [ BlazefireSaber    |-> [ address |-> TableBase,     selectable |-> TRUE ],
      FashionCollection |-> [ address |-> TableBase + 3, selectable |-> FALSE ] ]

ItemNames == DOMAIN UnlockItems

\* The Twitch Prime bundles: an ordered list of absolute addresses each
Bundles ==
    [ KookyChocobo       |-> [ addresses |-> << TableBase + 1, TableBase + 2 >> ],
      WeatherwornRegalia |-> [ addresses |-> << TableBase + 4, TableBase + 5 >> ] ]

BundleNames == DOMAIN Bundles

\* the data page: the byte table (all flags 0), then the Twitch URL
DataPage == Zeros(6) \o TwitchURL.original \o Zeros(PageSize - 8)

\* Images of ffxv_s.exe as loaded (module-relative byte sequences).
\* "retail": every signature occurs once, every site lies inside one page.
ImageRetail ==
    Pad(1) \o Unlock1.pattern \o Pad(2) \o
    Unlock2.pattern \o Pad(1) \o
    Pad(1) \o Unlock3.pattern \o Pad(TableOffset - 23) \o
    DataPage

\* "shifted": another build; the Unlock 2 site (offsets 6..12) crosses the
\* boundary between the first and the second page of the module, the
\* Unlock 3 site (offsets 15, 16) the one between the second and the third.
ImageShifted ==
    Unlock1.pattern \o Pad(1) \o Unlock2.pattern \o Unlock3.pattern \o
    Pad(TableOffset - 19) \o DataPage

\* "other": a build without the Unlock 1 signature, with the Unlock 3
\* signature occurring twice.
ImageOther ==
    Pad(1) \o Unlock3.pattern \o Pad(1) \o
    Unlock2.pattern \o Pad(1) \o
    Unlock3.pattern \o Pad(TableOffset - 22) \o
    DataPage

Builds == { "retail", "shifted", "other" }

ImageOf(b) ==
    CASE b = "retail"  -> ImageRetail
      [] b = "shifted" -> ImageShifted
      [] b = "other"   -> ImageOther

\* SizeOfImage
ModuleSize(b) == Len(ImageOf(b))

\* target memory right after the build is loaded
LoadImage(b) ==
    [ a \in ModuleBase..(ModuleBase + ModuleSize(b) - 1) |->
        ImageOf(b)[a - ModuleBase + 1] ]

\* Page protections right after load: the module is PAGE_EXECUTE_READ; in
\* the "shifted" build its second page holds code the game rewrites at run
\* time and is PAGE_EXECUTE_READWRITE.
LoadProt(b) ==
    [ pg \in PagesOf(ModuleBase, ModuleSize(b)) |->
        IF b = "shifted" /\ pg = PageOf(ModuleBase) + 1 THEN "RWX" ELSE "RX" ]

NoMem == << >>

\* what ReadProcessMemory cannot read
Unreadable(m, pr) == { a \in DOMAIN m : pr[PageOf(a)] = "NA" }

\* what a fault-free WriteProcessMemory can write
WritableProt(x) == x \in { "RW", "RWX" }

----------------------------------------------------------------------------
(* Injected faults.  A fault is in force for the whole of one public call: *)
(*   nowrite    addresses WriteProcessMemory cannot write (the copy stops  *)
(*              at the first of them: the bytes before it are written)     *)
(*   noprotect  pages VirtualProtectEx refuses to change                   *)
(*   noopen     OpenProcess is denied                                      *)
(*   nomodule   the module enumeration fails                               *)
(*   nosnapshot CreateToolhelp32Snapshot fails                             *)

NoFault ==
    [ nowrite |-> {}, noprotect |-> {}, noopen |-> FALSE, nomodule |-> FALSE,
      nosnapshot |-> FALSE ]

WriteFault(a) == [ NoFault EXCEPT !.nowrite = { a } ]

ProtectFault(pg) == [ NoFault EXCEPT !.noprotect = { pg } ]

OpenFault == [ NoFault EXCEPT !.noopen = TRUE ]

ModuleFault == [ NoFault EXCEPT !.nomodule = TRUE ]

SnapshotFault == [ NoFault EXCEPT !.nosnapshot = TRUE ]

----------------------------------------------------------------------------
(* MemoryEditor, as functions on the state record s.  s.ret is the value   *)
(* the call returned, s.calls the system calls it made, s.signals the Qt   *)
(* signals it emitted, s.trace both of them, the calls of applyPatch and   *)
(* removePatch and their assignments to patch.enabled, in program order,   *)
(* s.before (history) the bytes that were at the place of its last write.  *)

Log(s, c) == [ s EXCEPT !.calls = Append(@, c), !.trace = Append(@, c) ]

\* control enters the engine operation op for the catalogue entry `name`
Enter(s, op, name) == [ s EXCEPT !.trace = Append(@, << "call", op, name >>) ]

\* patch.enabled = value
SetPatchEnabled(s, name, value) ==
    [ s EXCEPT !.penabled[name] = value,
               !.trace = Append(@, << "patch.enabled", name, value >>) ]

\* the category boxes of m_allCategoryChecks the model keeps, with the items
\* createUnlockCategoryGroup puts under each; the Twitch Prime box stands
\* over the bundles
Categories == { "NormallyUnavailable", "TwitchPrime", "Steam" }

ItemsOf(c) ==
    CASE c = "NormallyUnavailable" -> << "BlazefireSaber" >>
      [] c = "Steam" -> << "FashionCollection" >>
      [] OTHER -> << >>

\* the property "permanentlyDisabled" of a category box
PermanentlyDisabled(c) == c = "Steam"

\* catCheck->isEnabled(): the category boxes are enabled and disabled with
\* the item and bundle boxes, the permanently disabled ones never enabled
CatEnabled(u, c) == u.controlsEnabled /\ ~PermanentlyDisabled(c)

\* MainWindow::updateMasterUnlockCheckbox
updateMasterUnlockCheckbox(u) ==
    [ u EXCEPT !.masterChecked =
                 \A c \in Categories : CatEnabled(u, c) => u.catChecked[c] ]

\* MainWindow::setUnlocksEnabled, for the controls the model keeps: the two
\* Platform Exclusives boxes (unlocksEnabled) and the item and bundle boxes
\* (controlsEnabled; the box of an item that is not selectable stays disabled)
setUnlocksEnabled(u, enabled) ==
    [ u EXCEPT !.unlocksEnabled = enabled, !.controlsEnabled = enabled ]

\* MainWindow::disableAndUncheckControl, for every item and bundle box
disableAndUncheckControls(u) ==
    [ u EXCEPT !.controlsEnabled = FALSE,
               !.masterChecked = FALSE,
               !.catChecked = [ c \in Categories |-> FALSE ],
               !.itemChecked = [ i \in ItemNames |-> FALSE ],
               !.bundleChecked = [ b \in BundleNames |-> FALSE ] ]

\* MainWindow::restoreUnlockControlStates
restoreUnlockControlStates(u) == [ u EXCEPT !.controlsEnabled = TRUE ]

\* MainWindow::onProcessAttached; ui.listening is HttpServer::isRunning
onProcessAttached(s) ==
    [ s EXCEPT !.ui = [ setUnlocksEnabled(@, TRUE)
                          EXCEPT !.urlRedirectEnabled = s.ui.listening,
                                 !.attachButton = FALSE,
                                 !.detachButton = TRUE ] ]

\* (mutation) onProcessDetached that resets the check boxes, the item and
\* bundle flags, and leaves patch->enabled alone
onProcessDetachedKeepPatches(s) ==
    [ s EXCEPT !.ui = [ setUnlocksEnabled(@, FALSE)
                          EXCEPT !.withWorkshop = FALSE, !.withoutWorkshop = FALSE,
                                 !.itemChecked = [ i \in ItemNames |-> FALSE ],
                                 !.bundleChecked = [ b \in BundleNames |-> FALSE ],
                                 !.attachButton = TRUE, !.detachButton = FALSE ],
               !.ienabled = [ i \in ItemNames |-> FALSE ],
               !.benabled = [ b \in BundleNames |-> FALSE ] ]

\* MainWindow::onProcessDetached: resets the check boxes and every enabled
\* flag.  Unchecking the URL redirect box runs onURLRedirectToggled(false),
\* which returns at once: the engine is not attached when this slot runs.
onProcessDetached(s) ==
    [ s EXCEPT !.ui = [ setUnlocksEnabled(@, FALSE)
                          EXCEPT !.urlRedirectCheck = FALSE,
                                 !.urlRedirectEnabled = FALSE,
                                 !.masterChecked = FALSE,
                                 !.catChecked = [ c \in Categories |-> FALSE ],
                                 !.withWorkshop = FALSE, !.withoutWorkshop = FALSE,
                                 !.itemChecked = [ i \in ItemNames |-> FALSE ],
                                 !.bundleChecked = [ b \in BundleNames |-> FALSE ],
                                 !.attachButton = TRUE, !.detachButton = FALSE ],
               !.ienabled = [ i \in ItemNames |-> FALSE ],
               !.benabled = [ b \in BundleNames |-> FALSE ],
               !.penabled = [ p \in PatchNames |-> FALSE ] ]

\* the slots MainWindow::setupConnections connects to the engine's signals;
\* the others only log and update the status line
Slot(s, sig) ==
    CASE sig[1] = "processDetached" -> onProcessDetached(s)
      [] sig[1] = "processAttached" -> onProcessAttached(s)
      [] OTHER -> s

\* emit sig(...): recorded, and delivered at once to the connected slot
Emit(s, sig) ==
    LET t == [ s EXCEPT !.signals = Append(@, sig),
                        !.trace = Append(@, << "emit" >> \o sig) ]
    IN  IF s.ui.connected THEN Slot(t, sig) ELSE t

\* (mutation) a failure path that sets m_lastError and returns false with
\* no errorOccurred
FailSilent(s, msg) == [ s EXCEPT !.lastError = msg, !.ret = FALSE ]

\* m_lastError = msg; emit errorOccurred(msg); return false.  The messages
\* about one patch, item or bundle end with its name.
Fail(s, msg) ==
    [ Emit([ s EXCEPT !.lastError = msg ], << "errorOccurred", msg >>)
        EXCEPT !.ret = FALSE ]

\* (mutation) isAttached that only tests m_processHandle
isAttachedHandleOnly(s) == s.handle # 0

\* MemoryEditor::isAttached: a handle is held and GetExitCodeProcess reports
\* STILL_ACTIVE for the instance it refers to
isAttached(s) == s.handle # 0 /\ s.alive = s.handle

\* (mutation) detach without the test of m_processHandle
detachUnconditional(s) ==
    Emit([ Log(s, << "CloseHandle" >>)
             EXCEPT !.handle = 0, !.cache = << >>, !.cacheInst = << >> ],
         << "processDetached" >>)

\* MemoryEditor::detach
detach(s) ==
    IF s.handle # 0
    THEN Emit([ Log(s, << "CloseHandle" >>)
                  EXCEPT !.handle = 0, !.cache = << >>, !.cacheInst = << >> ],
              << "processDetached" >>)
    ELSE s

\* the name the window attaches to
TARGET_PROCESS == "ffxv_s.exe"

\* towlower on the image names of the model
ToLower(name) ==
    CASE name = "FFXV_S.EXE" -> "ffxv_s.exe"
      [] name = "Explorer.EXE" -> "explorer.exe"
      [] OTHER -> name

\* _wcsicmp(a, b) == 0
wcsicmp(a, b) == ToLower(a) = ToLower(b)

\* the entries Process32FirstW / Process32NextW return: the shell, then the
\* target when an instance of it runs (szExeFile, th32ProcessID)
ProcessList(s) ==
    << [ exe |-> "Explorer.EXE", pid |-> MaxInst + 1 ] >>
      \o ( IF s.alive # 0
           THEN << [ exe |-> "ffxv_s.exe", pid |-> s.alive ] >>
           ELSE << >> )

\* (mutation) findProcessByName comparing the names as they are written
findProcessByNameExact(s, f, processName) ==
    LET list == ProcessList(s)
        hits == { k \in DOMAIN list : list[k].exe = processName }
    IN  IF f.nosnapshot
        THEN [ Emit([ Log(s, << "CreateToolhelp32Snapshot", FALSE >>)
                        EXCEPT !.lastError = "Failed to create process snapshot" ],
                    << "errorOccurred", "Failed to create process snapshot" >>)
                 EXCEPT !.ret = 0 ]
        ELSE [ Log(s, << "CreateToolhelp32Snapshot", TRUE >>)
                 EXCEPT !.ret = IF hits = {} THEN 0 ELSE list[SetMin(hits)].pid ]

\* MemoryEditor::findProcessByName: s.ret is the pid of the first entry whose
\* name matches, 0 when there is none or the snapshot cannot be taken
findProcessByName(s, f, processName) ==
    LET list == ProcessList(s)
        hits == { k \in DOMAIN list : wcsicmp(list[k].exe, processName) }
    IN  IF f.nosnapshot
        THEN [ Emit([ Log(s, << "CreateToolhelp32Snapshot", FALSE >>)
                        EXCEPT !.lastError = "Failed to create process snapshot" ],
                    << "errorOccurred", "Failed to create process snapshot" >>)
                 EXCEPT !.ret = 0 ]
        ELSE [ Log(s, << "CreateToolhelp32Snapshot", TRUE >>)
                 EXCEPT !.ret = IF hits = {} THEN 0 ELSE list[SetMin(hits)].pid ]

\* (mutation) attachToProcess that closes a handle it still holds and opens
\* the new one, m_patternCache left as it is
attachToProcessKeepCache(s0, f, processName) ==
    One({ IF s.ret = 0
          THEN [ s EXCEPT !.lastError = "Process not found: " \o processName,
                          !.ret = FALSE ]
          ELSE IF f.noopen
               THEN Fail(Log(s, << "OpenProcess", FALSE >>), "Failed to open process")
               ELSE [ Emit([ Log(s, << "OpenProcess", TRUE >>) EXCEPT !.handle = s.ret ],
                           << "processAttached", s.ret >>)
                        EXCEPT !.ret = TRUE ] :
          s \in { findProcessByName(
                    IF s0.handle # 0
                    THEN Emit([ Log(s0, << "CloseHandle" >>) EXCEPT !.handle = 0 ],
                              << "processDetached" >>)
                    ELSE s0, f, processName) } })

\* MemoryEditor::attachToProcess
attachToProcess(s0, f, processName) ==
    One({ IF s.ret = 0
          THEN [ s EXCEPT !.lastError = "Process not found: " \o processName,
                          !.ret = FALSE ]
          ELSE IF f.noopen
               THEN Fail(Log(s, << "OpenProcess", FALSE >>), "Failed to open process")
               ELSE [ Emit([ Log(s, << "OpenProcess", TRUE >>)
                               EXCEPT !.handle = s.ret, !.cache = << >>,
                                      !.cacheInst = << >> ],
                           << "processAttached", s.ret >>)
                        EXCEPT !.ret = TRUE ] :
          s \in { findProcessByName(IF s0.handle # 0 THEN detach(s0) ELSE s0,
                                    f, processName) } })

\* VirtualProtectEx(h, address, size, newProtection, &oldProtection): sets
\* every page of the region, reports the old protection of its FIRST page
\* only; fails, changing nothing, when a page is not mapped or refused.
\* s.ret is the BOOL returned, s.old the value stored to oldProtection.
setMemoryProtection(s, f, address, size, newProtection) ==
    LET pages == PagesOf(address, size)
        ok == /\ size > 0
              /\ pages \subseteq DOMAIN s.prot
              /\ pages \cap f.noprotect = {}
    IN  IF ok
        THEN [ Log(s, << "VirtualProtectEx", address, size, newProtection, TRUE >>)
                 EXCEPT !.prot = [ pg \in DOMAIN s.prot |->
                                     IF pg \in pages THEN newProtection ELSE s.prot[pg] ],
                        !.old = s.prot[PageOf(address)],
                        !.ret = TRUE ]
        ELSE [ Log(s, << "VirtualProtectEx", address, size, newProtection, FALSE >>)
                 EXCEPT !.ret = FALSE ]

\* how many leading bytes of [address, address + n) WriteProcessMemory copies
Copied(s, f, address, n) ==
    LET bad == { i \in 0..(n - 1) :
                   \/ (address + i) \notin DOMAIN s.mem
                   \/ (address + i) \in f.nowrite
                   \/ ~WritableProt(s.prot[PageOf(address + i)]) }
    IN  IF bad = {} THEN n ELSE SetMin(bad)

\* WriteProcessMemory(h, address, data, n, &bytesWritten) && bytesWritten == n
WriteProcessMemory(s, f, address, data) ==
    LET n == Len(data)
        k == Copied(s, f, address, n)
    IN  [ Log(s, << "WriteProcessMemory", address, data, k >>)
            EXCEPT !.mem = [ a \in DOMAIN s.mem |->
                               IF a >= address /\ a < address + k
                               THEN data[a - address + 1] ELSE s.mem[a] ],
                   !.before = [ i \in 1..n |->
                                  IF (address + i - 1) \in DOMAIN s.mem
                                  THEN s.mem[address + i - 1] ELSE Nullopt ],
                   !.ret = (k = n) ]

\* (mutation) writeMemory handing WriteProcessMemory one byte more
writeMemoryOneMore(s, f, address, data) ==
    WriteProcessMemory(s, f, address, data \o << 144 >>)

\* MemoryEditor::writeMemory
writeMemory(s, f, address, data) == WriteProcessMemory(s, f, address, data)

\* (mutation) writeProtectedMemory that returns as soon as the write has
\* failed, the protection left as it was set for the write
writeProtectedMemoryNoRestore(s, f, address, data) ==
    LET s1 == setMemoryProtection(s, f, address, Len(data), "RWX")
        s2 == writeMemory(s1, f, address, data)
        s3 == setMemoryProtection(s2, f, address, Len(data), s1.old)
    IN  IF ~s1.ret
        THEN [ s1 EXCEPT !.lastError = "Failed to change memory protection",
                         !.ret = FALSE ]
        ELSE IF ~s2.ret THEN s2 ELSE [ s3 EXCEPT !.ret = TRUE ]

\* MemoryEditor::writeProtectedMemory
writeProtectedMemory(s, f, address, data) ==
    LET s1 == setMemoryProtection(s, f, address, Len(data), "RWX")
        s2 == writeMemory(s1, f, address, data)
        s3 == setMemoryProtection(s2, f, address, Len(data), s1.old)
    IN  IF ~s1.ret
        THEN [ s1 EXCEPT !.lastError = "Failed to change memory protection",
                         !.ret = FALSE ]
        ELSE [ s3 EXCEPT !.ret = s2.ret ]

\* MemoryEditor::writeByte
writeByte(s, f, address, value) ==
    LET s1 == setMemoryProtection(s, f, address, 1, "RWX")
        s2 == WriteProcessMemory(s1, f, address, << value >>)
        s3 == setMemoryProtection(s2, f, address, 1, s1.old)
    IN  IF ~isAttached(s)
        THEN [ s EXCEPT !.ret = FALSE ]
        ELSE IF ~s1.ret
             THEN [ s1 EXCEPT !.ret = FALSE ]
             ELSE [ s3 EXCEPT !.ret = s2.ret ]

\* MemoryEditor::readByte
readByte(s, address) ==
    IF ~isAttached(s) \/ address \notin DOMAIN s.mem
          \/ address \in Unreadable(s.mem, s.prot)
    THEN 0
    ELSE s.mem[address]

\* PatternScanner::findPattern with the code's CHUNK_SIZE
findPattern(h, m, unreadable, startAddress, searchSize, pattern) ==
    findPatternChunked(h, m, unreadable, startAddress, searchSize, pattern, CHUNK_SIZE)

\* PatternScanner::findPatternInModule(h, L"ffxv_s.exe", pattern): the module
\* found by getModuleInfo is the whole mapped image
findPatternInModule(s, f, pattern) ==
    IF f.nomodule \/ s.mem = NoMem
    THEN Nullopt
    ELSE findPattern(s.handle, s.mem, Unreadable(s.mem, s.prot),
                     ModuleBase, Cardinality(DOMAIN s.mem), pattern)

\* (mutation) findPatternAddress that never consults m_patternCache
findPatternAddressNoCache(s, f, patch) ==
    LET result == findPatternInModule(s, f, patch.pattern)
        t == Log(s, << "scan", patch.name >>)
    IN  IF result # Nullopt
        THEN [ t EXCEPT !.cache = (patch.name :> result) @@ s.cache,
                        !.cacheInst = (patch.name :> s.handle) @@ s.cacheInst,
                        !.ret = result ]
        ELSE [ t EXCEPT !.ret = 0 ]

\* MemoryEditor::findPatternAddress; s.ret is the address, 0 when not found
findPatternAddress(s, f, patch) ==
    IF patch.name \in DOMAIN s.cache
    THEN [ s EXCEPT !.ret = s.cache[patch.name] ]
    ELSE LET result == findPatternInModule(s, f, patch.pattern)
             t == Log(s, << "scan", patch.name >>)
         IN  IF result # Nullopt
             THEN [ t EXCEPT !.cache = (patch.name :> result) @@ s.cache,
                             !.cacheInst = (patch.name :> s.handle) @@ s.cacheInst,
                             !.ret = result ]
             ELSE [ t EXCEPT !.ret = 0 ]

----------------------------------------------------------------------------
(* MemoryEditor: the public operations *)

\* (mutation) applyPatch that writes at the match address, patch.offset
\* forgotten
applyPatchAtMatch(s, f, name) ==
    LET patch == PatchDef(name)
        s1 == findPatternAddress(s, f, patch)
        s2 == writeProtectedMemory(s1, f, s1.ret, patch.patched)
    IN  IF ~isAttached(s)
        THEN Fail(s, "Not attached to process")
        ELSE IF s1.ret = 0
             THEN Fail(s1, "Pattern not found: " \o name)
             ELSE IF ~s2.ret
                  THEN Fail(s2, "Failed to write patch: " \o name)
                  ELSE [ Emit([ s2 EXCEPT !.penabled[name] = TRUE ],
                              << "patchApplied", name >>)
                           EXCEPT !.ret = TRUE ]

\* (mutation) applyPatch that marks the patch enabled before it looks at the
\* result of the write
applyPatchFlagFirst(s, f, name) ==
    LET patch == PatchDef(name)
        s1 == findPatternAddress(s, f, patch)
        address == s1.ret + patch.offset
        s2 == writeProtectedMemory(s1, f, address, patch.patched)
        s3 == [ s2 EXCEPT !.penabled[name] = TRUE ]
    IN  IF ~isAttached(s)
        THEN Fail(s, "Not attached to process")
        ELSE IF s1.ret = 0
             THEN Fail(s1, "Pattern not found: " \o name)
             ELSE IF ~s2.ret
                  THEN Fail(s3, "Failed to write patch: " \o name)
                  ELSE [ Emit(s3, << "patchApplied", name >>) EXCEPT !.ret = TRUE ]

\* MemoryEditor::applyPatch
applyPatch(s0, f, name) ==
    LET patch == PatchDef(name)
        s == Enter(s0, "applyPatch", name)
        s1 == findPatternAddress(s, f, patch)
        address == s1.ret + patch.offset
        s2 == writeProtectedMemory(s1, f, address, patch.patched)
    IN  IF ~isAttached(s)
        THEN Fail(s, "Not attached to process")
        ELSE IF s1.ret = 0
             THEN Fail(s1, "Pattern not found: " \o name)
             ELSE IF ~s2.ret
                  THEN Fail(s2, "Failed to write patch: " \o name)
                  ELSE [ Emit(SetPatchEnabled(s2, name, TRUE),
                              << "patchApplied", name >>)
                           EXCEPT !.ret = TRUE ]

\* (mutation) removePatch that scans for the signature again instead of
\* looking the address up in m_patternCache
removePatchRescan(s, f, name) ==
    LET patch == PatchDef(name)
        found == findPatternInModule(s, f, patch.pattern)
        s1 == [ Log(s, << "scan", name >>)
                  EXCEPT !.ret = IF found = Nullopt THEN 0 ELSE found ]
        address == s1.ret + patch.offset
        s2 == writeProtectedMemory(s1, f, address, patch.original)
    IN  IF ~isAttached(s)
        THEN Fail(s, "Not attached to process")
        ELSE IF s1.ret = 0
             THEN Fail(s1, "Cannot find patch location: " \o name)
             ELSE IF ~s2.ret
                  THEN Fail(s2, "Failed to restore original bytes: " \o name)
                  ELSE [ Emit([ s2 EXCEPT !.penabled[name] = FALSE ],
                              << "patchRemoved", name >>)
                           EXCEPT !.ret = TRUE ]

\* MemoryEditor::removePatch: cache first, then rescan
removePatch(s0, f, name) ==
    LET patch == PatchDef(name)
        s == Enter(s0, "removePatch", name)
        s1 == IF name \in DOMAIN s.cache
              THEN [ s EXCEPT !.ret = s.cache[name] ]
              ELSE findPatternAddress(s, f, patch)
        address == s1.ret + patch.offset
        s2 == writeProtectedMemory(s1, f, address, patch.original)
    IN  IF ~isAttached(s)
        THEN Fail(s, "Not attached to process")
        ELSE IF s1.ret = 0
             THEN Fail(s1, "Cannot find patch location: " \o name)
             ELSE IF ~s2.ret
                  THEN Fail(s2, "Failed to restore original bytes: " \o name)
                  ELSE [ Emit(SetPatchEnabled(s2, name, FALSE),
                              << "patchRemoved", name >>)
                           EXCEPT !.ret = TRUE ]

\* (mutation) togglePatch that applies whatever patch.enabled says
togglePatchApplyOnly(s, f, name) == applyPatch(s, f, name)

\* MemoryEditor::togglePatch
togglePatch(s, f, name) ==
    IF s.penabled[name] THEN removePatch(s, f, name) ELSE applyPatch(s, f, name)

\* (mutation) the loop of applyAllPatches leaving at the first patch that
\* fails
RECURSIVE applyAllFromStop(_, _, _, _)
applyAllFromStop(s, f, names, allSuccess) ==
    IF names = << >> \/ ~allSuccess
    THEN [ s EXCEPT !.ret = allSuccess ]
    ELSE IF ~s.penabled[Head(names)]
         THEN One({ applyAllFromStop(t, f, Tail(names), allSuccess /\ t.ret) :
                    t \in { applyPatch(s, f, Head(names)) } })
         ELSE applyAllFromStop(s, f, Tail(names), allSuccess)

\* MemoryEditor::applyAllPatches over the list `names`, allSuccess so far
RECURSIVE applyAllFrom(_, _, _, _)
applyAllFrom(s, f, names, allSuccess) ==
    IF names = << >>
    THEN [ s EXCEPT !.ret = allSuccess ]
    ELSE IF ~s.penabled[Head(names)]
         THEN One({ applyAllFrom(t, f, Tail(names), allSuccess /\ t.ret) :
                    t \in { applyPatch(s, f, Head(names)) } })
         ELSE applyAllFrom(s, f, Tail(names), allSuccess)

applyAllPatches(s, f, names) == applyAllFrom(s, f, names, TRUE)

\* MemoryEditor::removeAllPatches
RECURSIVE removeAllFrom(_, _, _, _)
removeAllFrom(s, f, names, allSuccess) ==
    IF names = << >>
    THEN [ s EXCEPT !.ret = allSuccess ]
    ELSE IF s.penabled[Head(names)]
         THEN One({ removeAllFrom(t, f, Tail(names), allSuccess /\ t.ret) :
                    t \in { removePatch(s, f, Head(names)) } })
         ELSE removeAllFrom(s, f, Tail(names), allSuccess)

removeAllPatches(s, f, names) == removeAllFrom(s, f, names, TRUE)

\* (mutation) enableUnlock without its own test of isAttached
enableUnlockUnchecked(s, f, name) ==
    LET s1 == writeByte(s, f, UnlockItems[name].address, 1)
    IN  IF ~s1.ret
        THEN Fail(s1, "Failed to enable unlock: " \o name)
        ELSE [ Emit([ s1 EXCEPT !.ienabled[name] = TRUE ],
                    << "unlockEnabled", name >>)
                 EXCEPT !.ret = TRUE ]

\* MemoryEditor::enableUnlock
enableUnlock(s, f, name) ==
    LET s1 == writeByte(s, f, UnlockItems[name].address, 1)
    IN  IF ~isAttached(s)
        THEN Fail(s, "Not attached to process")
        ELSE IF ~s1.ret
             THEN Fail(s1, "Failed to enable unlock: " \o name)
             ELSE [ Emit([ s1 EXCEPT !.ienabled[name] = TRUE ],
                         << "unlockEnabled", name >>)
                      EXCEPT !.ret = TRUE ]

\* MemoryEditor::disableUnlock
disableUnlock(s, f, name) ==
    LET s1 == writeByte(s, f, UnlockItems[name].address, 0)
    IN  IF ~isAttached(s)
        THEN Fail(s, "Not attached to process")
        ELSE IF ~s1.ret
             THEN Fail(s1, "Failed to disable unlock: " \o name)
             ELSE [ Emit([ s1 EXCEPT !.ienabled[name] = FALSE ],
                         << "unlockDisabled", name >>)
                      EXCEPT !.ret = TRUE ]

\* (mutation) toggleUnlock with the two branches exchanged
toggleUnlockInverted(s, f, name) ==
    IF s.ienabled[name] THEN enableUnlock(s, f, name) ELSE disableUnlock(s, f, name)

\* MemoryEditor::toggleUnlock
toggleUnlock(s, f, name) ==
    IF s.ienabled[name] THEN disableUnlock(s, f, name) ELSE enableUnlock(s, f, name)

\* MemoryEditor::enableAllUnlocks
RECURSIVE enableAllFrom(_, _, _, _)
enableAllFrom(s, f, names, allSuccess) ==
    IF names = << >>
    THEN [ s EXCEPT !.ret = allSuccess ]
    ELSE IF ~s.ienabled[Head(names)]
         THEN One({ enableAllFrom(t, f, Tail(names), allSuccess /\ t.ret) :
                    t \in { enableUnlock(s, f, Head(names)) } })
         ELSE enableAllFrom(s, f, Tail(names), allSuccess)

enableAllUnlocks(s, f, names) == enableAllFrom(s, f, names, TRUE)

\* MemoryEditor::disableAllUnlocks
RECURSIVE disableAllFrom(_, _, _, _)
disableAllFrom(s, f, names, allSuccess) ==
    IF names = << >>
    THEN [ s EXCEPT !.ret = allSuccess ]
    ELSE IF s.ienabled[Head(names)]
         THEN One({ disableAllFrom(t, f, Tail(names), allSuccess /\ t.ret) :
                    t \in { disableUnlock(s, f, Head(names)) } })
         ELSE disableAllFrom(s, f, Tail(names), allSuccess)

disableAllUnlocks(s, f, names) == disableAllFrom(s, f, names, TRUE)

\* (mutation) the loop leaving at the first write that fails
RECURSIVE writeAllBytesStop(_, _, _, _, _)
writeAllBytesStop(s, f, addresses, value, allSuccess) ==
    IF addresses = << >> \/ ~allSuccess
    THEN [ s EXCEPT !.ret = allSuccess ]
    ELSE One({ writeAllBytesStop(t, f, Tail(addresses), value, allSuccess /\ t.ret) :
               t \in { writeByte(s, f, Head(addresses), value) } })

\* the loop of enableBundle / disableBundle: writeByte(addr, value) for every
\* address, whatever the earlier writes returned
RECURSIVE writeAllBytes(_, _, _, _, _)
writeAllBytes(s, f, addresses, value, allSuccess) ==
    IF addresses = << >>
    THEN [ s EXCEPT !.ret = allSuccess ]
    ELSE One({ writeAllBytes(t, f, Tail(addresses), value, allSuccess /\ t.ret) :
               t \in { writeByte(s, f, Head(addresses), value) } })

\* MemoryEditor::enableBundle
enableBundle(s, f, name) ==
    IF ~isAttached(s)
    THEN Fail(s, "Not attached to process")
    ELSE One({ IF s1.ret
               THEN [ Emit([ s1 EXCEPT !.benabled[name] = TRUE ],
                           << "bundleEnabled", name >>)
                        EXCEPT !.ret = TRUE ]
               ELSE Fail(s1, "Failed to enable bundle (partial): " \o name) :
               s1 \in { writeAllBytes(s, f, Bundles[name].addresses, 1, TRUE) } })

\* (mutation) disableBundle that marks the bundle disabled whatever the
\* writes returned
disableBundleMarkAlways(s, f, name) ==
    IF ~isAttached(s)
    THEN Fail(s, "Not attached to process")
    ELSE One({ IF s1.ret
               THEN [ Emit([ s1 EXCEPT !.benabled[name] = FALSE ],
                           << "bundleDisabled", name >>)
                        EXCEPT !.ret = TRUE ]
               ELSE Fail([ s1 EXCEPT !.benabled[name] = FALSE ],
                         "Failed to disable bundle (partial): " \o name) :
               s1 \in { writeAllBytes(s, f, Bundles[name].addresses, 0, TRUE) } })

\* MemoryEditor::disableBundle
disableBundle(s, f, name) ==
    IF ~isAttached(s)
    THEN Fail(s, "Not attached to process")
    ELSE One({ IF s1.ret
               THEN [ Emit([ s1 EXCEPT !.benabled[name] = FALSE ],
                           << "bundleDisabled", name >>)
                        EXCEPT !.ret = TRUE ]
               ELSE Fail(s1, "Failed to disable bundle (partial): " \o name) :
               s1 \in { writeAllBytes(s, f, Bundles[name].addresses, 0, TRUE) } })

\* MemoryEditor::toggleBundle
toggleBundle(s, f, name) ==
    IF s.benabled[name] THEN disableBundle(s, f, name) ELSE enableBundle(s, f, name)

\* MemoryEditor::enableAllBundles
RECURSIVE enableBundlesFrom(_, _, _, _)
enableBundlesFrom(s, f, names, allSuccess) ==
    IF names = << >>
    THEN [ s EXCEPT !.ret = allSuccess ]
    ELSE IF ~s.benabled[Head(names)]
         THEN One({ enableBundlesFrom(t, f, Tail(names), allSuccess /\ t.ret) :
                    t \in { enableBundle(s, f, Head(names)) } })
         ELSE enableBundlesFrom(s, f, Tail(names), allSuccess)

enableAllBundles(s, f, names) == enableBundlesFrom(s, f, names, TRUE)

\* MemoryEditor::disableAllBundles
RECURSIVE disableBundlesFrom(_, _, _, _)
disableBundlesFrom(s, f, names, allSuccess) ==
    IF names = << >>
    THEN [ s EXCEPT !.ret = allSuccess ]
    ELSE IF s.benabled[Head(names)]
         THEN One({ disableBundlesFrom(t, f, Tail(names), allSuccess /\ t.ret) :
                    t \in { disableBundle(s, f, Head(names)) } })
         ELSE disableBundlesFrom(s, f, Tail(names), allSuccess)

disableAllBundles(s, f, names) == disableBundlesFrom(s, f, names, TRUE)

----------------------------------------------------------------------------
(* The state as a record, and back *)

Cur ==
    [ alive |-> alive, mem |-> mem, prot |-> prot, handle |-> handle,
      cache |-> cache, cacheInst |-> cacheInst, penabled |-> penabled,
      ienabled |-> ienabled, benabled |-> benabled, lastError |-> "",
      ui |-> ui, calls |-> << >>, signals |-> << >>, trace |-> << >>,
      before |-> << >>, ret |-> FALSE, old |-> "" ]

NoCall ==
    [ op |-> "none", arg |-> "", ok |-> FALSE, error |-> "", calls |-> << >>,
      signals |-> << >>, trace |-> << >>, before |-> << >> ]

Summary(c) == [ op |-> c.op, ok |-> c.ok ]

\* the public call `op(arg)` took the state to r
CommitState(result, op, arg) ==
    \E r \in { result } :
    /\ alive' = r.alive
    /\ mem' = r.mem
    /\ prot' = r.prot
    /\ handle' = r.handle
    /\ cache' = r.cache
    /\ cacheInst' = r.cacheInst
    /\ penabled' = r.penabled
    /\ ienabled' = r.ienabled
    /\ benabled' = r.benabled
    /\ ui' = r.ui
    /\ last' = [ op |-> op, arg |-> arg, ok |-> r.ret, error |-> r.lastError,
                 calls |-> r.calls, signals |-> r.signals, trace |-> r.trace,
                 before |-> r.before ]
    /\ prev' = Summary(last)
    /\ UNCHANGED << started, subject, scanIn, scanOut >>

\* the same, called from outside the event loop model
Commit(result, op, arg) == CommitState(result, op, arg) /\ UNCHANGED loop

\* no fault, or one byte of the table that cannot be written
TableFaults(addresses) == { NoFault } \cup { WriteFault(a) : a \in addresses }

\* the code patches a caller of the engine works with
CallerPatches == { "Unlock1", "Unlock2", "Unlock3" }

\* the faults that can make a difference to a write of n bytes at address
RegionFaults(address, n) ==
    { WriteFault(a) : a \in address..(address + Min(n, MaxFaultOffset) - 1) }
      \cup { ProtectFault(pg) : pg \in PagesOf(address, n) }

\* the faults that can make a difference to applyPatch / removePatch of `name`
PatchFaults(s, name) ==
    LET a == findPatternAddress(s, NoFault, PatchDef(name)).ret
    IN  { NoFault, ModuleFault } \cup
        ( IF isAttached(s) /\ a # 0
          THEN RegionFaults(a + PatchDef(name).offset, Len(PatchDef(name).patched))
          ELSE {} )

ItemFaults(name) == { NoFault } \cup RegionFaults(UnlockItems[name].address, 1)

BundleFaults(name) ==
    { NoFault } \cup
    UNION { RegionFaults(a, 1) : a \in Range(Bundles[name].addresses) }

\* the site applyPatch / removePatch of `name` would write to in state s,
\* 0 when it cannot be resolved
SiteOf(s, name) ==
    LET a == findPatternAddress(s, NoFault, PatchDef(name)).ret
    IN  IF isAttached(s) /\ a # 0 THEN a + PatchDef(name).offset ELSE 0

\* the faults a handler is run under: none, a failing module enumeration, or
\* one patch site whose first byte WriteProcessMemory cannot write
AppFaults(s) ==
    { NoFault, ModuleFault } \cup
    { [ NoFault EXCEPT !.nowrite = { SiteOf(s, p) } ] :
        p \in { q \in CallerPatches : SiteOf(s, q) # 0 } }

----------------------------------------------------------------------------
(* The environment: the target process starts and exits on its own *)

TargetStart(b) ==
    /\ alive = 0
    /\ started < MaxInst
    /\ alive' = started + 1
    /\ started' = started + 1
    /\ mem' = LoadImage(b)
    /\ prot' = LoadProt(b)
    /\ UNCHANGED << handle, cache, cacheInst, penabled, ienabled, benabled,
                    ui, subject, last, prev, scanIn, scanOut, loop >>

TargetExit ==
    /\ alive # 0
    /\ alive' = 0
    /\ mem' = NoMem
    /\ prot' = << >>
    /\ UNCHANGED << started, handle, cache, cacheInst, penabled, ienabled,
                    benabled, ui, subject, last, prev, scanIn, scanOut, loop >>

----------------------------------------------------------------------------
(* Spec: the MemoryEditor API called by an arbitrary caller *)

\* Spec exercises one catalogue entry per behaviour, chosen in Init
Subjects == CallerPatches \cup ItemNames \cup BundleNames \cup { "session" }

\* the window after setupUI: only the Attach button is enabled.
\* manualDetach is history: the user's last click on Attach or Detach was on
\* Detach.
UiInit(connected) ==
    [ connected |-> connected, autoAttach |-> TRUE, manualDetach |-> FALSE,
      withWorkshop |-> FALSE, withoutWorkshop |-> FALSE,
      unlocksEnabled |-> FALSE, controlsEnabled |-> FALSE,
      itemChecked |-> [ i \in ItemNames |-> FALSE ],
      bundleChecked |-> [ b \in BundleNames |-> FALSE ],
      attachButton |-> TRUE, detachButton |-> FALSE,
      masterChecked |-> FALSE,
      catChecked |-> [ c \in Categories |-> FALSE ],
      serverCheck |-> FALSE, listening |-> FALSE,
      urlRedirectCheck |-> FALSE, urlRedirectEnabled |-> FALSE ]

NoScan ==
    [ mem |-> << >>, start |-> 0, size |-> 0, unreadable |-> {}, pattern |-> << >>,
      chunk |-> 1 ]

\* the thread of the window in QApplication::exec, nothing posted, no
\* handler running, the Twitch Prime notice not yet shown
LoopIdle == [ queue |-> {}, frames |-> << >>, warned |-> FALSE ]

ProgramInit(connected) ==
    /\ alive = 0
    /\ started = 0
    /\ mem = NoMem
    /\ prot = << >>
    /\ handle = 0
    /\ cache = << >>
    /\ cacheInst = << >>
    /\ penabled = [ p \in PatchNames |-> FALSE ]
    /\ ienabled = [ i \in ItemNames |-> FALSE ]
    /\ benabled = [ b \in BundleNames |-> FALSE ]
    /\ ui = UiInit(connected)
    /\ last = NoCall
    /\ prev = Summary(NoCall)
    /\ loop = LoopIdle

Init ==
    /\ ProgramInit(FALSE)
    /\ subject \in Subjects
    /\ scanIn = NoScan
    /\ scanOut = [ done |-> FALSE, result |-> Nullopt ]

\* the names a caller asks for: the target's, the same in capitals, and
\* one that no process has
CallerNames == { TARGET_PROCESS, "FFXV_S.EXE", "ffxv.exe" }

\* in the behaviours about the session itself the caller attaches by any of
\* the names and the snapshot can fail; in the others it attaches by the
\* target's name
AttachToProcess ==
    \E processName \in IF subject = "session" THEN CallerNames ELSE { TARGET_PROCESS },
       f \in { NoFault, OpenFault }
               \cup IF subject = "session" THEN { SnapshotFault } ELSE {} :
        Commit(attachToProcess(Cur, f, processName), "attachToProcess", processName)

Detach == Commit(detach(Cur), "detach", "")

\* the caller asks isAttached(); nothing but the answer changes
IsAttached ==
    /\ subject = "session"
    /\ Commit([ Cur EXCEPT !.ret = isAttached(Cur) ], "isAttached", "")

ApplyPatch(name) ==
    \E f \in PatchFaults(Cur, name) :
        Commit(applyPatch(Cur, f, name), "applyPatch", name)

RemovePatch(name) ==
    \E f \in PatchFaults(Cur, name) :
        Commit(removePatch(Cur, f, name), "removePatch", name)

EnableUnlock(name) ==
    \E f \in ItemFaults(name) :
        Commit(enableUnlock(Cur, f, name), "enableUnlock", name)

DisableUnlock(name) ==
    \E f \in ItemFaults(name) :
        Commit(disableUnlock(Cur, f, name), "disableUnlock", name)

EnableBundle(name) ==
    \E f \in BundleFaults(name) :
        Commit(enableBundle(Cur, f, name), "enableBundle", name)

DisableBundle(name) ==
    \E f \in BundleFaults(name) :
        Commit(disableBundle(Cur, f, name), "disableBundle", name)

Next ==
    \/ \E b \in Builds : TargetStart(b)
    \/ TargetExit
    \/ AttachToProcess
    \/ Detach
    \/ IsAttached
    \/ \E p \in CallerPatches \cap { subject } : ApplyPatch(p)
    \/ \E p \in CallerPatches \cap { subject } : RemovePatch(p)
    \/ \E i \in ItemNames \cap { subject } : EnableUnlock(i)
    \/ \E i \in ItemNames \cap { subject } : DisableUnlock(i)
    \/ \E b \in BundleNames \cap { subject } : EnableBundle(b)
    \/ \E b \in BundleNames \cap { subject } : DisableBundle(b)

Spec == Init /\ [][Next]_vars

----------------------------------------------------------------------------
(* MainWindow: the handlers, as functions on the state record *)

\* Patches::getAllUnlockItems
AllUnlockItems == << "BlazefireSaber", "FashionCollection" >>

\* Patches::getTwitchPrimeBundles
TwitchPrimeBundles == << "KookyChocobo", "WeatherwornRegalia" >>

\* item->selectable
IsSelectable(name) == UnlockItems[name].selectable

\* Patches::getURLPatches
URLPatches == << "TwitchURL" >>

\* Patches::getUnlockAllWithWorkshopPatches: Unlock 1 + Unlock 2
UnlockAllWithWorkshopPatches == << "Unlock1", "Unlock2" >>

\* Patches::getUnlockAllWithoutWorkshopPatches: Unlock 3 only
UnlockAllWithoutWorkshopPatches == << "Unlock3" >>

\* (mutation) removeUnlockAllExclusives going through the patches in the
\* order they are applied in
removeUnlockAllExclusivesForward(s, f) ==
    IF ~isAttached(s)
    THEN s
    ELSE One({ IF s2.penabled["Unlock3"] THEN removePatch(s2, f, "Unlock3") ELSE s2 :
          s2 \in { IF s1.penabled["Unlock2"] THEN removePatch(s1, f, "Unlock2") ELSE s1 :
          s1 \in { IF s.penabled["Unlock1"] THEN removePatch(s, f, "Unlock1")
                                            ELSE s } } })

\* MainWindow::removeUnlockAllExclusives
removeUnlockAllExclusives(s, f) ==
    IF ~isAttached(s)
    THEN s
    ELSE One({ IF s2.penabled["Unlock1"] THEN removePatch(s2, f, "Unlock1") ELSE s2 :
          s2 \in { IF s1.penabled["Unlock2"] THEN removePatch(s1, f, "Unlock2") ELSE s1 :
          s1 \in { IF s.penabled["Unlock3"] THEN removePatch(s, f, "Unlock3")
                                            ELSE s } } })

\* the loops of applyUnlockAllExclusives: applyPatch for every patch of the
\* list, whatever the earlier calls returned
RECURSIVE applyEach(_, _, _)
applyEach(s, f, names) ==
    IF names = << >>
    THEN s
    ELSE One({ applyEach(t, f, Tail(names)) : t \in { applyPatch(s, f, Head(names)) } })

\* MainWindow::applyUnlockAllExclusives
applyUnlockAllExclusives(s, f, withWorkshop) ==
    IF ~isAttached(s)
    THEN s
    ELSE One({ applyEach(s1, f, IF withWorkshop THEN UnlockAllWithWorkshopPatches
                                                ELSE UnlockAllWithoutWorkshopPatches) :
               s1 \in { removeUnlockAllExclusives(s, f) } })

\* MainWindow::onAttachClicked
onAttachClicked(s0, f) ==
    One({ IF ~isAttached(s)
          THEN attachToProcess([ s EXCEPT !.ui.autoAttach = TRUE ], f, TARGET_PROCESS)
          ELSE s :
       s \in { [ s0 EXCEPT !.ui.manualDetach = FALSE ] } })

\* MainWindow::onDetachClicked
onDetachClicked(s0, f) ==
    One({ IF ~isAttached(s)
          THEN s
          ELSE One({ detach(s5) :
                s5 \in { removeUnlockAllExclusives(s4, f) :
                s4 \in { removeAllPatches(s3, f, URLPatches) :
                s3 \in { disableAllBundles(s2, f, TwitchPrimeBundles) :
                s2 \in { disableAllUnlocks(s1, f, AllUnlockItems) :
                s1 \in { [ s EXCEPT !.ui.autoAttach = FALSE ] } } } } } }) :
       s \in { [ s0 EXCEPT !.ui.manualDetach = TRUE ] } })

\* (mutation) checkForProcess that attaches only when no handle is held
checkForProcessNoHandle(s, f, exits) ==
    LET wasAttached == isAttached(s)
        gone == [ s EXCEPT !.alive = 0, !.mem = NoMem, !.prot = << >> ]
    IN  IF s.handle = 0 /\ s.ui.autoAttach
        THEN attachToProcess(s, f, TARGET_PROCESS)
        ELSE IF wasAttached /\ exits
             THEN onProcessDetached(gone)
             ELSE s

\* MainWindow::checkForProcess, the slot of the 2 s timer.  `exits`: the
\* target exits between the handler's two calls of isAttached.
checkForProcess(s, f, exits) ==
    LET wasAttached == isAttached(s)
        gone == [ s EXCEPT !.alive = 0, !.mem = NoMem, !.prot = << >> ]
    IN  IF ~wasAttached /\ s.ui.autoAttach
        THEN attachToProcess(s, f, TARGET_PROCESS)
        ELSE IF wasAttached /\ exits
             THEN onProcessDetached(gone)
             ELSE s

\* MainWindow::onUnlockWithoutWorkshopToggled; the check box already shows
\* `checked` when the slot runs
onUnlockWithoutWorkshopToggled(s0, f, checked) ==
    One({ IF ~isAttached(s)
          THEN s
          ELSE IF checked
               THEN One({ applyUnlockAllExclusives(s3, f, FALSE) :
                     s3 \in { disableAllBundles(s2, f, TwitchPrimeBundles) :
                     s2 \in { disableAllUnlocks(s1, f, AllUnlockItems) :
                     s1 \in { [ s EXCEPT !.ui = disableAndUncheckControls(
                                               [ @ EXCEPT !.withWorkshop = FALSE ]) ]
                           } } } })
               ELSE IF ~s.ui.withWorkshop
                    THEN One({ [ t EXCEPT !.ui = restoreUnlockControlStates(@) ] :
                               t \in { removeUnlockAllExclusives(s, f) } })
                    ELSE s :
          s \in { [ s0 EXCEPT !.ui.withoutWorkshop = checked ] } })

\* MainWindow::onUnlockWithWorkshopToggled
onUnlockWithWorkshopToggled(s0, f, checked) ==
    One({ IF ~isAttached(s)
          THEN s
          ELSE IF checked
               THEN One({ applyUnlockAllExclusives(s3, f, TRUE) :
                     s3 \in { disableAllBundles(s2, f, TwitchPrimeBundles) :
                     s2 \in { disableAllUnlocks(s1, f, AllUnlockItems) :
                     s1 \in { [ s EXCEPT !.ui = disableAndUncheckControls(
                                               [ @ EXCEPT !.withoutWorkshop = FALSE ]) ]
                           } } } })
               ELSE IF ~s.ui.withoutWorkshop
                    THEN One({ [ t EXCEPT !.ui = restoreUnlockControlStates(@) ] :
                               t \in { removeUnlockAllExclusives(s, f) } })
                    ELSE s :
          s \in { [ s0 EXCEPT !.ui.withWorkshop = checked ] } })

\* Patches::getSelectableItems
SelectableItems == SelectSeq(AllUnlockItems, IsSelectable)

\* the category whose group holds the box of item `name`
CategoryOf(name) ==
    CHOOSE c \in Categories : name \in Range(ItemsOf(c))

\* the end of onIndividualUnlockToggled: the item's category box is checked
\* iff every item box of the category is, the master box iff every
\* category box is
individualUpdatesBoxes(u, name) ==
    LET c == CategoryOf(name)
        u1 == [ u EXCEPT !.catChecked[c] =
                            \A i \in Range(ItemsOf(c)) : u.itemChecked[i] ]
    IN  [ u1 EXCEPT !.masterChecked = \A d \in Categories : u1.catChecked[d] ]

\* MainWindow::onIndividualUnlockToggled for the box of item `name`
onIndividualUnlockToggled(s0, f, name, checked) ==
    One({ IF ~isAttached(s)
          THEN s
          ELSE IF ~UnlockItems[name].selectable
               THEN [ s EXCEPT !.ui.itemChecked[name] = FALSE ]
               ELSE One({ [ t EXCEPT !.ui = individualUpdatesBoxes(@, name) ] :
                          t \in { IF checked
                                  THEN enableUnlock(s, f, name)
                                  ELSE disableUnlock(s, f, name) } }) :
          s \in { [ s0 EXCEPT !.ui.itemChecked[name] = checked ] } })

\* the end of onBundleToggled: the Twitch Prime box is checked iff every
\* bundle box is, then updateMasterUnlockCheckbox
bundleUpdatesBoxes(u) ==
    updateMasterUnlockCheckbox(
        [ u EXCEPT !.catChecked["TwitchPrime"] =
                     \A b \in BundleNames : u.bundleChecked[b] ])

\* MainWindow::onBundleToggled for the box of bundle `name`
onBundleToggled(s0, f, name, checked) ==
    One({ IF ~isAttached(s)
          THEN s
          ELSE One({ [ t EXCEPT !.ui = bundleUpdatesBoxes(@) ] :
                     t \in { IF checked
                             THEN enableBundle(s, f, name)
                             ELSE disableBundle(s, f, name) } }) :
          s \in { [ s0 EXCEPT !.ui.bundleChecked[name] = checked ] } })

\* (mutation) onUnlockAllToggled working on every unlock item
onUnlockAllToggledEveryItem(s0, f, checked) ==
    One({ IF ~isAttached(s)
          THEN s
          ELSE One({ [ t EXCEPT
                         !.ui.catChecked = [ c \in Categories |->
                             IF CatEnabled(t.ui, c) THEN checked ELSE @[c] ],
                         !.ui.itemChecked = [ i \in ItemNames |-> checked ],
                         !.ui.bundleChecked = [ b \in BundleNames |-> checked ] ] :
                t \in { IF checked
                        THEN enableAllBundles(s1, f, TwitchPrimeBundles)
                        ELSE disableAllBundles(s1, f, TwitchPrimeBundles) :
                s1 \in { IF checked
                         THEN enableAllUnlocks(s, f, AllUnlockItems)
                         ELSE disableAllUnlocks(s, f, AllUnlockItems) } } }) :
          s \in { [ s0 EXCEPT !.ui.masterChecked = checked ] } })

\* MainWindow::onUnlockAllToggled: the engine calls, then the enabled
\* category boxes, the boxes of the selectable items and the bundle boxes
\* are set to `checked` with their signals blocked
onUnlockAllToggled(s0, f, checked) ==
    One({ IF ~isAttached(s)
          THEN s
          ELSE One({ [ t EXCEPT
                         !.ui.catChecked = [ c \in Categories |->
                             IF CatEnabled(t.ui, c) THEN checked ELSE @[c] ],
                         !.ui.itemChecked = [ i \in ItemNames |->
                             IF UnlockItems[i].selectable THEN checked ELSE @[i] ],
                         !.ui.bundleChecked = [ b \in BundleNames |-> checked ] ] :
                t \in { IF checked
                        THEN enableAllBundles(s1, f, TwitchPrimeBundles)
                        ELSE disableAllBundles(s1, f, TwitchPrimeBundles) :
                s1 \in { IF checked
                         THEN enableAllUnlocks(s, f, SelectableItems)
                         ELSE disableAllUnlocks(s, f, SelectableItems) } } }) :
          s \in { [ s0 EXCEPT !.ui.masterChecked = checked ] } })

\* MainWindow::onCategoryToggled for the box of category c
onCategoryToggled(s0, f, c, checked) ==
    LET items == ItemsOf(c)
        selectableItems == SelectSeq(items, IsSelectable)
    IN  One({ IF ~isAttached(s) \/ items = << >>
              THEN s
              ELSE One({ [ t EXCEPT !.ui = updateMasterUnlockCheckbox(
                             [ @ EXCEPT !.itemChecked = [ i \in ItemNames |->
                                 IF i \in Range(selectableItems) THEN checked
                                                                 ELSE @[i] ] ]) ] :
                    t \in { IF checked
                            THEN enableAllUnlocks(s, f, selectableItems)
                            ELSE disableAllUnlocks(s, f, selectableItems) } }) :
              s \in { [ s0 EXCEPT !.ui.catChecked[c] = checked ] } })

\* MainWindow::onTwitchPrimeCategoryToggled (its notice is in SpecLoop)
onTwitchPrimeCategoryToggled(s0, f, checked) ==
    One({ IF ~isAttached(s)
          THEN s
          ELSE One({ [ t EXCEPT !.ui = updateMasterUnlockCheckbox(
                         [ @ EXCEPT !.bundleChecked = [ b \in BundleNames |-> checked ] ]) ] :
                t \in { IF checked
                        THEN enableAllBundles(s, f, TwitchPrimeBundles)
                        ELSE disableAllBundles(s, f, TwitchPrimeBundles) } }) :
          s \in { [ s0 EXCEPT !.ui.catChecked["TwitchPrime"] = checked ] } })

\* MainWindow::onURLRedirectToggled; the box already shows `checked`
onURLRedirectToggled(s0, f, checked) ==
    One({ IF ~isAttached(s)
          THEN s
          ELSE IF checked
               THEN applyAllPatches(s, f, URLPatches)
               ELSE removeAllPatches(s, f, URLPatches) :
          s \in { [ s0 EXCEPT !.ui.urlRedirectCheck = checked ] } })

\* m_urlRedirectCheck->setChecked(false): toggled(false) is emitted, and the
\* slot runs, when the box was checked
uncheckURLRedirect(s, f) ==
    IF s.ui.urlRedirectCheck THEN onURLRedirectToggled(s, f, FALSE) ELSE s

\* MainWindow::onServerToggled(false): HttpServer::stop, then the URL
\* redirect box is disabled and unchecked
serverOff(s, f) ==
    uncheckURLRedirect([ s EXCEPT !.ui.listening = FALSE,
                                  !.ui.urlRedirectEnabled = FALSE ], f)

\* MainWindow::onServerToggled; `binds`: QTcpServer::listen on port 443
\* succeeds.  When it fails the handler unchecks the server box, which runs
\* the handler again with checked = false.
onServerToggled(s0, f, checked, binds) ==
    One({ IF checked
          THEN IF binds
               THEN [ s EXCEPT !.ui.listening = TRUE,
                               !.ui.urlRedirectEnabled = isAttached(s) ]
               ELSE serverOff([ s EXCEPT !.ui.serverCheck = FALSE,
                                         !.ui.listening = FALSE ], f)
          ELSE serverOff(s, f) :
          s \in { [ s0 EXCEPT !.ui.serverCheck = checked ] } })

----------------------------------------------------------------------------
(* Properties of the MemoryEditor API (Spec) *)

\* how many module scans the call c started
Scans(c) == Cardinality({ k \in DOMAIN c.calls : c.calls[k][1] = "scan" })

\* the call c made a WriteProcessMemory that copied all of `data` to `address`
WroteAll(c, address, data) ==
    << "WriteProcessMemory", address, data, Len(data) >> \in Range(c.calls)

\* the addresses at which `pattern` occurs in memory m
Matches(m, pattern) ==
    { a \in DOMAIN m :
        /\ (a + Len(pattern) - 1) \in DOMAIN m
        /\ Bytes(m, a, Len(pattern)) = pattern }

\* A step that is the public call op(arg): the target's own steps change
\* `alive`, a public call never does, and `last` is the call the step made.
Called(op, arg) == alive' = alive /\ last'.op = op /\ last'.arg = arg

\* a step that is a call of applyPatch / removePatch on p
PatchStep(p) == Called("applyPatch", p) \/ Called("removePatch", p)

\* a step that is a call of attachToProcess
AttachStep == alive' = alive /\ last'.op = "attachToProcess"

Attached == AttachStep /\ last'.ok

Detached == Called("detach", "")

\* C1: a successful applyPatch(p) directly followed, in the same attach
\* session, by a successful removePatch(p) leaves the bytes at the resolved
\* site (match address + offset) equal to p.original, and p.enabled false.
C1_RoundTrip ==
    \A p \in CallerPatches :
        ( /\ subject = p
          /\ prev.op = "applyPatch" /\ prev.ok
          /\ last.op = "removePatch" /\ last.ok
          /\ alive = handle )
        => /\ p \in DOMAIN cache
           /\ Bytes(mem, cache[p] + PatchDef(p).offset, Len(PatchDef(p).original))
                = PatchDef(p).original
           /\ ~penabled[p]

\* C1 witness: Unlock 3, whose signature occurs twice in the module, was
\* applied and then removed, the removal resolving the site from the cache.
C1_Witness ==
    /\ subject = "Unlock3"
    /\ prev.op = "applyPatch" /\ prev.ok
    /\ last.op = "removePatch" /\ last.ok
    /\ alive = handle
    /\ Scans(last) = 0
    /\ Cardinality(Matches(mem, Unlock3.pattern)) = 2
    /\ ~penabled["Unlock3"]

EngineWrite ==
    \/ \E p \in CallerPatches : PatchStep(p)
    \/ \E i \in ItemNames : Called("enableUnlock", i) \/ Called("disableUnlock", i)
    \/ \E b \in BundleNames : Called("enableBundle", b) \/ Called("disableBundle", b)

\* C3 (as claimed): once an engine write has returned, whether it succeeded
\* or failed, every page has the protection it had before the operation.
C3_ProtectionPaired ==
    [][ EngineWrite => \A pg \in DOMAIN prot : prot'[pg] = prot[pg] ]_vars

\* C5: a failed applyPatch / removePatch / enableUnlock / disableUnlock
\* leaves every enabled flag as it was, and a flag only becomes true in the
\* step of the apply / enable call whose write copied all the bytes.
C5_FailedOpKeepsFlag ==
    [][ /\ \A p \in CallerPatches :
             (PatchStep(p) /\ ~last'.ok)
             => penabled' = penabled /\ ienabled' = ienabled /\ benabled' = benabled
        /\ \A i \in ItemNames :
             ((Called("enableUnlock", i) \/ Called("disableUnlock", i)) /\ ~last'.ok)
             => penabled' = penabled /\ ienabled' = ienabled /\ benabled' = benabled
        /\ \A p \in PatchNames :
             (~penabled[p] /\ penabled'[p])
             => /\ last'.op = "applyPatch" /\ last'.arg = p /\ last'.ok
                /\ WroteAll(last', cache'[p] + PatchDef(p).offset, PatchDef(p).patched)
        /\ \A i \in ItemNames :
             (~ienabled[i] /\ ienabled'[i])
             => /\ last'.op = "enableUnlock" /\ last'.arg = i /\ last'.ok
                /\ WroteAll(last', UnlockItems[i].address, << 1 >>) ]_vars

\* C5 witness: applyPatch failed after WriteProcessMemory had copied a part
\* of the bytes; the patch is not marked enabled.
C5_Witness ==
    /\ last.op = "applyPatch" /\ ~last.ok
    /\ last.error = "Failed to write patch: " \o last.arg
    /\ \E k \in DOMAIN last.calls :
          /\ last.calls[k][1] = "WriteProcessMemory"
          /\ last.calls[k][4] > 0
          /\ last.calls[k][4] < Len(last.calls[k][3])
    /\ ~penabled[last.arg]

\* C8 (as claimed): two consecutive resolutions of the same patch while
\* attached start the module scan at most once between them.
C8_ScanOnlyOnce ==
    [][ \A p \in CallerPatches :
          ( /\ PatchStep(p)
            /\ isAttached(Cur)
            /\ last.op \in { "applyPatch", "removePatch" }
            /\ last.error # "Not attached to process" )
          => Scans(last) + Scans(last') <= 1 ]_vars

\* C8 (amended): a resolution that finds the signature caches the address;
\* while the entry is cached, resolutions of that patch start no scan; the
\* entry stays until detach or attach, which empty the cache; a resolution
\* while attached with no entry cached starts exactly one scan.
C8_CachedAfterSuccess ==
    [][ /\ \A p \in CallerPatches :
             (PatchStep(p) /\ isAttached(Cur))
             => IF p \in DOMAIN cache
                THEN Scans(last') = 0 /\ cache' = cache
                ELSE /\ Scans(last') = 1
                     /\ (p \in DOMAIN cache') = (Matches(mem, PatchDef(p).pattern) # {}
                                                 /\ last'.error # "Pattern not found: " \o p
                                                 /\ last'.error # "Cannot find patch location: " \o p)
        /\ (Detached \/ Attached) => cache' = << >>
        /\ ~(Detached \/ AttachStep)
             => \A p \in DOMAIN cache : p \in DOMAIN cache' /\ cache'[p] = cache[p]
      ]_vars

\* C8 witness: applyPatch succeeded twice in a row while attached and the
\* second call started no scan.
C8_Witness ==
    /\ prev.op = "applyPatch" /\ prev.ok
    /\ last.op = "applyPatch" /\ last.ok
    /\ Scans(last) = 0
    /\ alive = handle

\* C9: every cache entry was scanned in the instance the engine is attached
\* to; the cache is empty right after every detach and every successful
\* attach; every address a patch operation writes to is that of a cache
\* entry scanned in the running instance.
C9_NoStaleAddress ==
    [][ /\ \A p \in DOMAIN cache' : handle' # 0 /\ cacheInst'[p] = handle'
        /\ (Detached \/ Attached) => cache' = << >>
        /\ \A p \in CallerPatches :
             PatchStep(p)
             => \A k \in DOMAIN last'.calls :
                   last'.calls[k][1] = "WriteProcessMemory"
                   => /\ p \in DOMAIN cache'
                      /\ last'.calls[k][2] = cache'[p] + PatchDef(p).offset
                      /\ cacheInst'[p] = alive'
                      /\ alive' = handle' ]_vars

\* C9 witness: a patch was applied, the target exited and started again with
\* no detach in between, and the next attach closed the old handle and left
\* the cache empty.
C9_Witness ==
    /\ prev.op = "applyPatch" /\ prev.ok
    /\ last.op = "attachToProcess" /\ last.ok
    /\ << "CloseHandle" >> \in Range(last.calls)
    /\ handle = alive /\ started > 1
    /\ cache = << >>

C11_DisableBundleSymmetric ==
    [][ \A b \in BundleNames :
          (Called("disableBundle", b) /\ isAttached(Cur))
          => LET addrs == Range(Bundles[b].addresses)
                 tried(a) == \E k \in DOMAIN last'.calls :
                                /\ last'.calls[k][1] = "VirtualProtectEx"
                                /\ last'.calls[k][2] = a
                                /\ last'.calls[k][4] = "RWX"
                 won(a) == WroteAll(last', a, << 0 >>)
             IN  /\ \A a \in addrs : tried(a)
                 /\ \A a \in addrs : mem'[a] = IF won(a) THEN 0 ELSE mem[a]
                 /\ last'.ok = (\A a \in addrs : won(a))
                 /\ benabled'[b] = IF last'.ok THEN FALSE ELSE benabled[b]
                 /\ (<< "bundleDisabled", b >> \in Range(last'.signals)) = last'.ok
                 /\ \A c \in BundleNames \ { b } : benabled'[c] = benabled[c] ]_vars

\* C11 witness: disableBundle of an enabled bundle failed after zeroing one
\* of its addresses; the bundle is still marked enabled and no
\* bundleDisabled was emitted.
C11_Witness ==
    /\ last.op = "disableBundle" /\ ~last.ok
    /\ last.error = "Failed to disable bundle (partial): " \o last.arg
    /\ alive = handle
    /\ \E b \in BundleNames :
          /\ last.arg = b
          /\ benabled[b]
          /\ << "bundleDisabled", b >> \notin Range(last.signals)
          /\ \E a1, a2 \in Range(Bundles[b].addresses) : mem[a1] = 0 /\ mem[a2] = 1

\* C12 (as claimed): enableUnlock / disableUnlock of an item that is not
\* selectable returns failure, writes nothing to the item's address and
\* leaves every enabled flag of the items as it was.
C12_NonSelectableRejected ==
    [][ \A i \in ItemNames :
          ( /\ ~UnlockItems[i].selectable
            /\ (Called("enableUnlock", i) \/ Called("disableUnlock", i)) )
          => /\ ~last'.ok
             /\ \A k \in DOMAIN last'.calls :
                   last'.calls[k][1] = "WriteProcessMemory"
                   => last'.calls[k][2] # UnlockItems[i].address
             /\ mem' = mem
             /\ ienabled' = ienabled ]_vars

\* C13 (as claimed): while attached, applyPatch of a patch that is already
\* enabled and disableUnlock of an item that is already disabled return
\* success and leave target memory and every enabled flag as they were.
C13_Idempotent ==
    [][ /\ \A p \in CallerPatches :
             (Called("applyPatch", p) /\ penabled[p] /\ isAttached(Cur))
             => /\ last'.ok
                /\ mem' = mem
                /\ penabled' = penabled /\ ienabled' = ienabled /\ benabled' = benabled
        /\ \A i \in ItemNames :
             (Called("disableUnlock", i) /\ ~ienabled[i] /\ isAttached(Cur))
             => /\ last'.ok
                /\ mem' = mem
                /\ penabled' = penabled /\ ienabled' = ienabled /\ benabled' = benabled
      ]_vars

\* C16: while the engine holds a handle to an instance of the target that
\* has exited (detach was not called since the attach), every isAttached()
\* returns false, and the handle stays held.
C16_ExitedMeansNotAttached ==
    [][ (Called("isAttached", "") /\ handle # 0 /\ alive # handle)
        => ~last'.ok /\ handle' = handle ]_vars

\* C16 witness: isAttached() returned true, the target exited, and the next
\* isAttached() returned false with the handle still held.
C16_Witness ==
    /\ prev.op = "isAttached" /\ prev.ok
    /\ last.op = "isAttached" /\ ~last.ok
    /\ handle # 0
    /\ alive = 0

\* C19: applyPatch, removePatch, enableUnlock, disableUnlock, enableBundle
\* and disableBundle called while no live target is attached (no handle, or
\* the handle of an instance that has exited) return false with the error
\* "Not attached to process", make no system call (no scan, no protection
\* change, no write) and leave memory, protections, every enabled flag, the
\* cache and the handle as they were.
C19_NotAttached ==
    [][ ( /\ EngineWrite
          /\ ~isAttached(Cur) )
        => /\ ~last'.ok
           /\ last'.error = "Not attached to process"
           /\ last'.calls = << >>
           /\ last'.signals = << << "errorOccurred", "Not attached to process" >> >>
           /\ mem' = mem /\ prot' = prot
           /\ penabled' = penabled /\ ienabled' = ienabled /\ benabled' = benabled
           /\ cache' = cache /\ cacheInst' = cacheInst
           /\ handle' = handle ]_vars

\* C19 witness: a patch was applied, the target exited, and removePatch then
\* failed as not attached; the patch is still marked enabled and its address
\* is still cached.
C19_Witness ==
    /\ last.op = "removePatch" /\ ~last.ok
    /\ last.error = "Not attached to process"
    /\ handle # 0 /\ alive = 0
    /\ penabled[last.arg]
    /\ last.arg \in DOMAIN cache

\* the addresses whose byte the step changed
Changed == { a \in DOMAIN mem : a \notin DOMAIN mem' \/ mem'[a] # mem[a] }

\* every WriteProcessMemory of the call asked for `n` bytes at one of `sites`
WritesOnly(sites, n) ==
    \A k \in DOMAIN last'.calls :
        last'.calls[k][1] = "WriteProcessMemory"
        => last'.calls[k][2] \in sites /\ Len(last'.calls[k][3]) = n

\* C20: applyPatch / removePatch change no byte outside the len(patched)
\* bytes at (resolved address + offset) and ask WriteProcessMemory for
\* exactly that many bytes there; enableUnlock / disableUnlock change no
\* byte but the one at the item's address; enableBundle / disableBundle
\* change no byte but those at the bundle's addresses.
C20_WriteFootprint ==
    [][ /\ DOMAIN mem' = DOMAIN mem \/ alive' # alive
        /\ \A p \in CallerPatches :
             PatchStep(p)
             => IF p \in DOMAIN cache'
                THEN LET site == cache'[p] + PatchDef(p).offset
                         n == Len(PatchDef(p).patched)
                     IN  /\ Changed \subseteq site..(site + n - 1)
                         /\ WritesOnly({ site }, n)
                         /\ last'.ok
                              => Bytes(mem', site, n)
                                   = IF last'.op = "applyPatch"
                                     THEN PatchDef(p).patched
                                     ELSE PatchDef(p).original
                ELSE Changed = {} /\ WritesOnly({}, 0)
        /\ \A i \in ItemNames :
             (Called("enableUnlock", i) \/ Called("disableUnlock", i))
             => /\ Changed \subseteq { UnlockItems[i].address }
                /\ WritesOnly({ UnlockItems[i].address }, 1)
        /\ \A b \in BundleNames :
             (Called("enableBundle", b) \/ Called("disableBundle", b))
             => /\ Changed \subseteq Range(Bundles[b].addresses)
                /\ WritesOnly(Range(Bundles[b].addresses), 1)
      ]_vars

\* C20 witness: applyPatch(Unlock 2) succeeded on a fresh instance, and the
\* bytes of the target that differ from the loaded image are exactly the
\* seven bytes of the site.
C20_Witness ==
    /\ last.op = "applyPatch" /\ last.ok /\ last.arg = "Unlock2"
    /\ alive = handle
    /\ "Unlock2" \in DOMAIN cache
    /\ \E b \in Builds :
          { a \in DOMAIN mem : mem[a] # LoadImage(b)[a] }
            = cache["Unlock2"]..(cache["Unlock2"] + Len(Unlock2.patched) - 1)

\* the spellings of the target's image name
TargetSpellings == { "ffxv_s.exe", "FFXV_S.EXE" }

\* C18: attachToProcess(name) fails with "Process not found" when no running
\* process has that image name, the case of the letters ignored, and with
\* "Failed to open process" when OpenProcess is denied; after a failed
\* attach the engine holds no handle and processAttached was not emitted;
\* after a successful one the engine is attached to the running instance,
\* the cache is empty and processAttached was emitted exactly once.  With
\* the process running, the snapshot taken and OpenProcess granted the
\* attach succeeds.
C18_AttachOutcome ==
    [][ \A n \in CallerNames :
          Called("attachToProcess", n)
          => LET running == alive # 0 /\ n \in TargetSpellings
                 denied == << "OpenProcess", FALSE >> \in Range(last'.calls)
                 nosnap == << "CreateToolhelp32Snapshot", FALSE >> \in Range(last'.calls)
                 attachedSignals == { k \in DOMAIN last'.signals :
                                        last'.signals[k][1] = "processAttached" }
             IN  /\ ~running => ~last'.ok /\ last'.error = "Process not found: " \o n
                 /\ denied => running /\ ~last'.ok /\ last'.error = "Failed to open process"
                 /\ (running /\ ~denied /\ ~nosnap) => last'.ok
                 /\ ~last'.ok => handle' = 0 /\ attachedSignals = {}
                 /\ last'.ok => /\ handle' = alive /\ isAttached(Cur')
                                /\ cache' = << >>
                                /\ Cardinality(attachedSignals) = 1
                                /\ \A k \in attachedSignals :
                                      last'.signals[k] = << "processAttached", alive >>
      ]_vars

\* C18 witness: the caller attached by the name in capitals while holding
\* the handle of an instance that had exited; the attach succeeded.
C18_Witness ==
    /\ last.op = "attachToProcess" /\ last.ok
    /\ last.arg = "FFXV_S.EXE"
    /\ << "CloseHandle" >> \in Range(last.calls)
    /\ handle = alive /\ handle # 0
    /\ cache = << >>

\* the positions of trace tr that hold an entry of kind `kind`
At(tr, kind) == { k \in DOMAIN tr : tr[k][1] = kind }

\* C21: inside applyPatch(p) the steps come in the order resolve the address
\* (a scan, or the cache), relax the protection, write the patched bytes,
\* restore the protection, patch.enabled = true, emit patchApplied.  The
\* write is always directly followed by the restoring VirtualProtectEx, with
\* the protection the relaxing call reported, whether the write copied all
\* the bytes or not; patch.enabled is assigned, and patchApplied emitted,
\* only directly after that restore, and only after a complete write.
C21_ApplyPatchOrder ==
    [][ \A p \in CallerPatches :
          Called("applyPatch", p)
          => LET tr == last'.trace
                 n == Len(tr)
                 scans == At(tr, "scan")
                 protects == At(tr, "VirtualProtectEx")
                 writes == At(tr, "WriteProcessMemory")
                 sets == At(tr, "patch.enabled")
                 applied == { k \in At(tr, "emit") : tr[k][2] = "patchApplied" }
             IN  /\ tr[1] = << "call", "applyPatch", p >>
                 /\ Cardinality(scans) <= 1 /\ Cardinality(writes) <= 1
                 /\ \A k \in scans : \A j \in protects \cup writes : k < j
                 /\ \A w \in writes :
                      /\ (w - 1) \in protects /\ (w + 1) \in protects
                      /\ tr[w][3] = PatchDef(p).patched
                      /\ tr[w - 1] = << "VirtualProtectEx", tr[w][2], Len(tr[w][3]),
                                        "RWX", TRUE >>
                      /\ tr[w + 1][2] = tr[w][2] /\ tr[w + 1][3] = Len(tr[w][3])
                      /\ tr[w + 1][4] = prot[PageOf(tr[w][2])]
                 /\ \A k \in protects : (k - 1) \in writes \/ (k + 1) \in writes
                                          \/ (~tr[k][5] /\ writes = {})
                 /\ \A k \in sets :
                      /\ tr[k] = << "patch.enabled", p, TRUE >>
                      /\ (k - 1) \in protects /\ (k - 2) \in writes
                      /\ tr[k - 2][4] = Len(tr[k - 2][3])
                      /\ (k + 1) \in applied
                 /\ \A k \in applied :
                      /\ tr[k] = << "emit", "patchApplied", p >>
                      /\ (k - 1) \in sets /\ k = n
                 /\ last'.ok = (sets # {})
                 /\ (~penabled[p] /\ penabled'[p]) => sets # {} ]_vars

\* C21 witness: applyPatch whose write stopped part-way and failed; the
\* restoring VirtualProtectEx follows the write, nothing is marked or emitted
\* as applied
C21_Witness ==
    /\ last.op = "applyPatch" /\ ~last.ok
    /\ \E w \in At(last.trace, "WriteProcessMemory") :
          /\ last.trace[w][4] < Len(last.trace[w][3])
          /\ (w + 1) \in At(last.trace, "VirtualProtectEx")
    /\ At(last.trace, "patch.enabled") = {}

\* the signal a successful call of op emits
SignalOf(op) ==
    CASE op = "applyPatch" -> "patchApplied"
      [] op = "removePatch" -> "patchRemoved"
      [] op = "enableUnlock" -> "unlockEnabled"
      [] op = "disableUnlock" -> "unlockDisabled"
      [] op = "enableBundle" -> "bundleEnabled"
      [] op = "disableBundle" -> "bundleDisabled"

\* C24: a successful applyPatch, removePatch, enableUnlock, disableUnlock,
\* enableBundle or disableBundle emits exactly one signal, the one of its
\* kind, carrying the name of the patch, item or bundle; a failed one emits
\* errorOccurred with its message and none of the success signals.
C24_SignalsMatchOutcome ==
    [][ \A op \in { "applyPatch", "removePatch", "enableUnlock", "disableUnlock",
                    "enableBundle", "disableBundle" } :
        \A n \in CallerPatches \cup ItemNames \cup BundleNames :
          Called(op, n)
          => IF last'.ok
             THEN last'.signals = << << SignalOf(op), n >> >>
             ELSE /\ last'.error # ""
                  /\ last'.signals = << << "errorOccurred", last'.error >> >> ]_vars

\* C24 witness: a disableBundle that failed after it had written a part of
\* the bundle's flags: errorOccurred only, no bundleDisabled
C24_Witness ==
    /\ last.op = "disableBundle" /\ ~last.ok
    /\ last.signals = << << "errorOccurred",
                            "Failed to disable bundle (partial): " \o last.arg >> >>
    /\ \E k \in At(last.calls, "WriteProcessMemory") : last.calls[k][4] = 1

----------------------------------------------------------------------------
(* SpecToggle: the engine called by an arbitrary caller that also uses the  *)
(* toggle operations and writeByte, on one code patch or one unlock item    *)
(* per behaviour                                                            *)

ToggleInit ==
    /\ ProgramInit(FALSE)
    /\ subject \in CallerPatches \cup ItemNames
    /\ scanIn = NoScan
    /\ scanOut = [ done |-> FALSE, result |-> Nullopt ]

TogglePatch(name) ==
    \E f \in PatchFaults(Cur, name) :
        Commit(togglePatch(Cur, f, name), "togglePatch", name)

ToggleUnlock(name) ==
    \E f \in ItemFaults(name) :
        Commit(toggleUnlock(Cur, f, name), "toggleUnlock", name)

\* the caller writes one byte at the address of item `name`
WriteByte(name) ==
    \E f \in ItemFaults(name), value \in { 0, 1 } :
        Commit(writeByte(Cur, f, UnlockItems[name].address, value), "writeByte", name)

ToggleNext ==
    \/ \E b \in Builds : TargetStart(b)
    \/ TargetExit
    \/ AttachToProcess
    \/ Detach
    \/ \E p \in CallerPatches \cap { subject } : ApplyPatch(p)
    \/ \E p \in CallerPatches \cap { subject } : RemovePatch(p)
    \/ \E p \in CallerPatches \cap { subject } : TogglePatch(p)
    \/ \E i \in ItemNames \cap { subject } : EnableUnlock(i)
    \/ \E i \in ItemNames \cap { subject } : DisableUnlock(i)
    \/ \E i \in ItemNames \cap { subject } : ToggleUnlock(i)
    \/ \E i \in ItemNames \cap { subject } : WriteByte(i)

SpecToggle == ToggleInit /\ [][ToggleNext]_vars

\* what readByte(address) returns to a caller in the state after the step
ReadBack(address) ==
    readByte([ alive |-> alive', handle |-> handle', mem |-> mem', prot |-> prot' ],
             address)

\* the values the WriteProcessMemory calls of the step were given
Written == { last'.calls[k][3] : k \in At(last'.calls, "WriteProcessMemory") }

\* C25: for a selectable item, a successful enableUnlock leaves the byte at
\* the item's address equal to 1, readByte returns 1 and enabled is true; a
\* successful disableUnlock leaves 0, readByte returns 0 and enabled is
\* false; toggleUnlock does what disableUnlock does when the item is enabled
\* and what enableUnlock does otherwise.
C25_UnlockFlags ==
    [][ \A i \in { j \in ItemNames : UnlockItems[j].selectable } :
        LET a == UnlockItems[i].address
        IN  /\ (Called("enableUnlock", i) /\ last'.ok)
               => mem'[a] = 1 /\ ReadBack(a) = 1 /\ ienabled'[i]
            /\ (Called("disableUnlock", i) /\ last'.ok)
               => mem'[a] = 0 /\ ReadBack(a) = 0 /\ ~ienabled'[i]
            /\ Called("toggleUnlock", i)
               => /\ Written \subseteq { << IF ienabled[i] THEN 0 ELSE 1 >> }
                  /\ IF last'.ok
                     THEN /\ ienabled'[i] = ~ienabled[i]
                          /\ mem'[a] = (IF ienabled[i] THEN 0 ELSE 1)
                          /\ ReadBack(a) = mem'[a]
                          /\ last'.signals =
                               << << IF ienabled[i] THEN "unlockDisabled"
                                                    ELSE "unlockEnabled", i >> >>
                     ELSE /\ ienabled'[i] = ienabled[i]
                          /\ last'.error \in
                               { "Not attached to process",
                                 ( IF ienabled[i] THEN "Failed to disable unlock: "
                                                  ELSE "Failed to enable unlock: " )
                                   \o i } ]_vars

\* C25 witness: toggleUnlock on an enabled selectable item wrote 0 and
\* cleared the flag
C25_Witness ==
    \E i \in { j \in ItemNames : UnlockItems[j].selectable } :
        /\ last.op = "toggleUnlock" /\ last.arg = i /\ last.ok
        /\ last.signals = << << "unlockDisabled", i >> >>
        /\ last.before = << 1 >>
        /\ ~ienabled[i] /\ mem[UnlockItems[i].address] = 0

\* the step is a successful togglePatch(p) that directly follows a
\* successful togglePatch(p)
SecondToggle(p) ==
    /\ Called("togglePatch", p) /\ last'.ok
    /\ last.op = "togglePatch" /\ last.arg = p /\ last.ok

\* the bytes, after the step, at the place the step wrote to
SiteBytes ==
    { Bytes(mem', last'.calls[k][2], Len(last'.calls[k][3])) :
        k \in At(last'.calls, "WriteProcessMemory") }

\* togglePatch(p) calls removePatch when p.enabled and applyPatch otherwise,
\* and a successful toggle negates p.enabled
ToggleDispatch(p) ==
    Called("togglePatch", p)
    => /\ last'.trace[1] = << "call", IF penabled[p] THEN "removePatch"
                                                     ELSE "applyPatch", p >>
       /\ last'.ok => penabled'[p] = ~penabled[p]

FailingOps ==
    { "attachToProcess", "applyPatch", "removePatch", "enableUnlock",
      "disableUnlock", "enableBundle", "disableBundle", "writeByte" }

\* the call of the step made at most one scan and at most one
\* WriteProcessMemory per address
NoRetry ==
    /\ Scans(last') <= 1
    /\ \A k \in At(last'.calls, "WriteProcessMemory") :
       \A j \in At(last'.calls, "WriteProcessMemory") :
           last'.calls[k][2] = last'.calls[j][2] => k = j

\* C23 (as claimed): every public operation that fails returns false and
\* leaves a message for the caller (m_lastError set by this call), and within
\* one operation no scan and no write to an address is made twice.
C23_NoSilentFailure ==
    [][ (alive' = alive /\ last'.op \in FailingOps)
        => /\ ~last'.ok => last'.error # ""
           /\ NoRetry ]_vars

----------------------------------------------------------------------------
(* SpecBulk: the bulk operations, called with a list of the caller's choice *)

\* SpecBulk exercises one kind of catalogue entry per behaviour
BulkKinds == { "patches", "items", "bundles" }

\* the lists a caller passes: the catalogue order, and a part of it with
\* the order changed
PatchLists == { << "Unlock1", "Unlock2", "Unlock3" >>, << "Unlock3", "Unlock1" >> }

ItemLists == { AllUnlockItems, << "FashionCollection" >> }

BundleLists == { TwitchPrimeBundles, << "WeatherwornRegalia" >> }

\* the faults a bulk call over patches is run under: none, or one patch site
\* whose first byte WriteProcessMemory cannot write
SiteFaults(s) == AppFaults(s) \ { ModuleFault }

ItemAddresses == { UnlockItems[i].address : i \in ItemNames }

BundleAddresses == UNION { Range(Bundles[b].addresses) : b \in BundleNames }

BulkInit ==
    /\ ProgramInit(FALSE)
    /\ subject \in BulkKinds
    /\ scanIn = NoScan
    /\ scanOut = [ done |-> FALSE, result |-> Nullopt ]

ApplyAllPatches ==
    /\ subject = "patches"
    /\ \E names \in PatchLists, f \in SiteFaults(Cur) :
          Commit(applyAllPatches(Cur, f, names), "applyAllPatches", names)

RemoveAllPatches ==
    /\ subject = "patches"
    /\ \E names \in PatchLists, f \in SiteFaults(Cur) :
          Commit(removeAllPatches(Cur, f, names), "removeAllPatches", names)

EnableAllUnlocks ==
    /\ subject = "items"
    /\ \E names \in ItemLists, f \in TableFaults(ItemAddresses) :
          Commit(enableAllUnlocks(Cur, f, names), "enableAllUnlocks", names)

DisableAllUnlocks ==
    /\ subject = "items"
    /\ \E names \in ItemLists, f \in TableFaults(ItemAddresses) :
          Commit(disableAllUnlocks(Cur, f, names), "disableAllUnlocks", names)

EnableAllBundles ==
    /\ subject = "bundles"
    /\ \E names \in BundleLists, f \in TableFaults(BundleAddresses) :
          Commit(enableAllBundles(Cur, f, names), "enableAllBundles", names)

DisableAllBundles ==
    /\ subject = "bundles"
    /\ \E names \in BundleLists, f \in TableFaults(BundleAddresses) :
          Commit(disableAllBundles(Cur, f, names), "disableAllBundles", names)

BulkNext ==
    \/ \E b \in Builds : TargetStart(b)
    \/ TargetExit
    \/ AttachToProcess
    \/ Detach
    \/ ApplyAllPatches
    \/ RemoveAllPatches
    \/ EnableAllUnlocks
    \/ DisableAllUnlocks
    \/ EnableAllBundles
    \/ DisableAllBundles

SpecBulk == BulkInit /\ [][BulkNext]_vars

\* a step that is the bulk call `op`; last'.arg is the list it was given
BulkStep(op) == alive' = alive /\ last'.op = op

\* the items of the list `names` whose flag in `pre` is not `target`, in the
\* order of the list: the ones the loop calls the operation for
Attempted(names, pre, target) ==
    LET Todo(n) == pre[n] # target IN SelectSeq(names, Todo)

\* the texts of errorOccurred that the operation on `name` can emit
ErrorsOf(name, texts) ==
    { "Not attached to process" } \cup { t \o ": " \o name : t \in texts }

\* the outcome of a bulk call over `names`: the k-th signal is the one of
\* the k-th attempted item, its success signal (flag at target) or an error
\* (flag as before); the call returns true iff no attempted item failed;
\* the flags of all other items are as before.
BulkOutcome(names, pre, post, target, okSignal, texts) ==
    LET att == Attempted(names, pre, target)
        sig == last'.signals
    IN  /\ Len(sig) = Len(att)
        /\ \A k \in DOMAIN att :
              \/ sig[k] = << okSignal, att[k] >> /\ post[att[k]] = target
              \/ /\ sig[k][1] = "errorOccurred"
                 /\ sig[k][2] \in ErrorsOf(att[k], texts)
                 /\ post[att[k]] = pre[att[k]]
        /\ last'.ok = (\A k \in DOMAIN sig : sig[k][1] = okSignal)
        /\ \A n \in DOMAIN pre : n \notin Range(att) => post[n] = pre[n]

\* every WriteProcessMemory of the call went to one of `sites`
WritesWithin(sites) ==
    \A k \in DOMAIN last'.calls :
        last'.calls[k][1] = "WriteProcessMemory" => last'.calls[k][2] \in sites

\* the patches / items / bundles the call reported success for
Succeeded(okSignal) ==
    { last'.signals[k][2] : k \in { j \in DOMAIN last'.signals :
                                       last'.signals[j][1] = okSignal } }

\* what the bytes at the site of patch p are after a bulk call that
\* reported success for p
PatchBulkEffect(okSignal, field) ==
    \A p \in Succeeded(okSignal) :
        /\ p \in DOMAIN cache'
        /\ Bytes(mem', cache'[p] + PatchDef(p).offset, Len(PatchDef(p)[field]))
             = PatchDef(p)[field]

\* the sites of the patches a bulk call over last'.arg attempts
PatchSites(target) ==
    { cache'[p] + PatchDef(p).offset :
        p \in Range(Attempted(last'.arg, penabled, target)) \cap DOMAIN cache' }

ItemSites(target) ==
    { UnlockItems[i].address : i \in Range(Attempted(last'.arg, ienabled, target)) }

BundleSites(target) ==
    UNION { Range(Bundles[b].addresses) :
              b \in Range(Attempted(last'.arg, benabled, target)) }

\* C14: each bulk operation calls the single operation for the items of the
\* list that are not yet in the target state, in the order of the list and
\* whatever the earlier calls returned; it writes nothing for the items
\* already in the target state; it returns true iff none of the attempted
\* items failed; every item that succeeded is in its new state, flag and
\* bytes.
C14_BulkOrderedBestEffort ==
    [][ /\ BulkStep("applyAllPatches")
             => /\ BulkOutcome(last'.arg, penabled, penabled', TRUE, "patchApplied",
                               { "Pattern not found", "Failed to write patch" })
                /\ WritesWithin(PatchSites(TRUE))
                /\ PatchBulkEffect("patchApplied", "patched")
        /\ BulkStep("removeAllPatches")
             => /\ BulkOutcome(last'.arg, penabled, penabled', FALSE, "patchRemoved",
                               { "Cannot find patch location",
                                 "Failed to restore original bytes" })
                /\ WritesWithin(PatchSites(FALSE))
                /\ PatchBulkEffect("patchRemoved", "original")
        /\ BulkStep("enableAllUnlocks")
             => /\ BulkOutcome(last'.arg, ienabled, ienabled', TRUE, "unlockEnabled",
                               { "Failed to enable unlock" })
                /\ WritesWithin(ItemSites(TRUE))
                /\ \A i \in Succeeded("unlockEnabled") : mem'[UnlockItems[i].address] = 1
        /\ BulkStep("disableAllUnlocks")
             => /\ BulkOutcome(last'.arg, ienabled, ienabled', FALSE, "unlockDisabled",
                               { "Failed to disable unlock" })
                /\ WritesWithin(ItemSites(FALSE))
                /\ \A i \in Succeeded("unlockDisabled") : mem'[UnlockItems[i].address] = 0
        /\ BulkStep("enableAllBundles")
             => /\ BulkOutcome(last'.arg, benabled, benabled', TRUE, "bundleEnabled",
                               { "Failed to enable bundle (partial)" })
                /\ WritesWithin(BundleSites(TRUE))
                /\ \A b \in Succeeded("bundleEnabled") :
                      \A a \in Range(Bundles[b].addresses) : mem'[a] = 1
        /\ BulkStep("disableAllBundles")
             => /\ BulkOutcome(last'.arg, benabled, benabled', FALSE, "bundleDisabled",
                               { "Failed to disable bundle (partial)" })
                /\ WritesWithin(BundleSites(FALSE))
                /\ \A b \in Succeeded("bundleDisabled") :
                      \A a \in Range(Bundles[b].addresses) : mem'[a] = 0
      ]_vars

\* C14 witness: applyAllPatches over (Unlock 1, Unlock 2, Unlock 3) with
\* Unlock 2 already enabled: Unlock 1 failed, Unlock 2 was skipped, Unlock 3
\* was applied after the failure, and the call returned false.
C14_Witness ==
    /\ last.op = "applyAllPatches" /\ ~last.ok
    /\ last.arg = << "Unlock1", "Unlock2", "Unlock3" >>
    /\ alive = handle
    /\ Len(last.signals) = 2
    /\ last.signals[1] = << "errorOccurred", "Failed to write patch: Unlock1" >>
    /\ last.signals[2] = << "patchApplied", "Unlock3" >>
    /\ ~penabled["Unlock1"] /\ penabled["Unlock2"] /\ penabled["Unlock3"]
    /\ Bytes(mem, cache["Unlock3"] + Unlock3.offset, 2) = Unlock3.patched

\* the call emitted an errorOccurred whose text names the item n
Reported(n, texts) ==
    \E k \in DOMAIN last'.signals :
        /\ last'.signals[k][1] = "errorOccurred"
        /\ last'.signals[k][2] \in { t \o ": " \o n : t \in texts }

\* after a bulk call that returned false, the items reported by name are
\* exactly the attempted items that are not in the target state
BulkReports(names, pre, post, target, texts) ==
    ~last'.ok
    => \A n \in Range(names) :
          Reported(n, texts)
          <=> (n \in Range(Attempted(names, pre, target)) /\ post[n] # target)

\* C15 (as claimed): after a bulk call that returned failure, every item
\* whose operation failed, for whatever cause, was reported to the caller by
\* a report that identifies it, and no item that succeeded or was skipped
\* was reported.
C15_BulkReportsFailedItems ==
    [][ /\ BulkStep("applyAllPatches")
             => BulkReports(last'.arg, penabled, penabled', TRUE,
                            { "Pattern not found", "Failed to write patch" })
        /\ BulkStep("removeAllPatches")
             => BulkReports(last'.arg, penabled, penabled', FALSE,
                            { "Cannot find patch location",
                              "Failed to restore original bytes" })
        /\ BulkStep("enableAllUnlocks")
             => BulkReports(last'.arg, ienabled, ienabled', TRUE,
                            { "Failed to enable unlock" })
        /\ BulkStep("disableAllUnlocks")
             => BulkReports(last'.arg, ienabled, ienabled', FALSE,
                            { "Failed to disable unlock" })
        /\ BulkStep("enableAllBundles")
             => BulkReports(last'.arg, benabled, benabled', TRUE,
                            { "Failed to enable bundle (partial)" })
        /\ BulkStep("disableAllBundles")
             => BulkReports(last'.arg, benabled, benabled', FALSE,
                            { "Failed to disable bundle (partial)" })
      ]_vars

----------------------------------------------------------------------------
(* SpecApp: the window's handlers, run by the user and the poll timer *)

OnOff(checked) == IF checked THEN "on" ELSE "off"

\* SpecApp exercises one group of controls per behaviour, chosen in AppInit:
\* the Platform Exclusives boxes, or the item and bundle boxes
AppModes == { "exclusives", "unlocks" }

AppInit ==
    /\ ProgramInit(TRUE)
    /\ subject \in AppModes
    /\ scanIn = NoScan
    /\ scanOut = [ done |-> FALSE, result |-> Nullopt ]

\* the faults of the behaviours with the URL redirect: none, or one byte
\* WriteProcessMemory cannot write: the first or the second byte of the site
\* of the URL patch or of Unlock 1
UrlFaults(s) ==
    TableFaults(UNION { { SiteOf(s, p), SiteOf(s, p) + 1 } :
                   p \in { q \in { "TwitchURL", "Unlock1" } : SiteOf(s, q) # 0 } })

\* the faults a handler that cleans up is run under: in the behaviours that
\* use the item and bundle boxes, none or one unwritable byte of an enabled
\* item or bundle; in the others, AppFaults
HandlerFaults(s) ==
    IF subject = "url"
    THEN UrlFaults(s)
    ELSE IF subject \in { "unlocks", "policy", "master" }
    THEN TableFaults({ UnlockItems[i].address : i \in { j \in ItemNames : s.ienabled[j] } }
                       \cup { Bundles[b].addresses[1] :
                                b \in { c \in BundleNames : s.benabled[c] } })
    ELSE AppFaults(s)

\* the faults attachToProcess is run under: in the behaviours of SpecPolicy
\* OpenProcess is never denied
AttachFaults == IF subject \in { "policy", "url", "master" } THEN { NoFault } ELSE { NoFault, OpenFault }

\* the bundle boxes the user clicks: all, in SpecPolicy the first
BundleBoxes == IF subject \in { "policy", "master" } THEN { "KookyChocobo" } ELSE BundleNames

\* the user clicks Attach (enabled while detached)
OnAttachClicked ==
    /\ ui.attachButton
    /\ \E f \in AttachFaults :
          Commit(onAttachClicked(Cur, f), "onAttachClicked", "")

\* the user clicks Detach (enabled while attached)
OnDetachClicked ==
    /\ ui.detachButton
    /\ \E f \in HandlerFaults(Cur) :
          Commit(onDetachClicked(Cur, f), "onDetachClicked", "")

\* the poll timer fires
CheckForProcess ==
    \E f \in AttachFaults, exits \in BOOLEAN :
        Commit(checkForProcess(Cur, f, exits), "checkForProcess", "")

\* the user toggles "Unlock All (with Steam Workshop)"
OnUnlockWithWorkshopToggled ==
    /\ subject \in { "exclusives", "policy", "url" }
    /\ ui.unlocksEnabled
    /\ \E f \in IF subject \in { "policy", "url" } THEN HandlerFaults(Cur)
                                               ELSE AppFaults(Cur) :
          Commit(onUnlockWithWorkshopToggled(Cur, f, ~ui.withWorkshop),
                 "onUnlockWithWorkshopToggled", OnOff(~ui.withWorkshop))

\* the user toggles "Unlock All (without Steam Workshop)"
OnUnlockWithoutWorkshopToggled ==
    /\ subject \in { "exclusives", "policy" }
    /\ ui.unlocksEnabled
    /\ \E f \in IF subject = "policy" THEN HandlerFaults(Cur) ELSE AppFaults(Cur) :
          Commit(onUnlockWithoutWorkshopToggled(Cur, f, ~ui.withoutWorkshop),
                 "onUnlockWithoutWorkshopToggled", OnOff(~ui.withoutWorkshop))

\* the user toggles the box of an unlock item (enabled for selectable items)
OnIndividualUnlockToggled ==
    \E i \in ItemNames :
        /\ subject \in { "unlocks", "policy", "master" }
        /\ ui.controlsEnabled /\ UnlockItems[i].selectable
        /\ \E f \in TableFaults({ UnlockItems[i].address }) :
              Commit(onIndividualUnlockToggled(Cur, f, i, ~ui.itemChecked[i]),
                     "onIndividualUnlockToggled", i)

\* the user toggles the box of a Twitch Prime bundle
OnBundleToggled ==
    \E b \in BundleBoxes :
        /\ subject \in { "unlocks", "policy", "master" }
        /\ ui.controlsEnabled
        /\ \E f \in TableFaults({ Bundles[b].addresses[Len(Bundles[b].addresses)] }) :
              Commit(onBundleToggled(Cur, f, b, ~ui.bundleChecked[b]),
                     "onBundleToggled", b)

AppNext ==
    \/ \E b \in Builds : TargetStart(b)
    \/ TargetExit
    \/ OnAttachClicked
    \/ OnDetachClicked
    \/ CheckForProcess
    \/ OnUnlockWithWorkshopToggled
    \/ OnUnlockWithoutWorkshopToggled
    \/ OnIndividualUnlockToggled
    \/ OnBundleToggled

SpecApp == AppInit /\ [][AppNext]_vars

\* SpecPolicy: the same handlers in behaviours that use the item and bundle
\* boxes together with the Platform Exclusives boxes
PolicyInit ==
    /\ ProgramInit(TRUE)
    /\ subject = "policy"
    /\ scanIn = NoScan
    /\ scanOut = [ done |-> FALSE, result |-> Nullopt ]

\* the target of SpecPolicy is the retail build
PolicyNext ==
    \/ TargetStart("retail")
    \/ TargetExit
    \/ OnAttachClicked
    \/ OnDetachClicked
    \/ CheckForProcess
    \/ OnUnlockWithWorkshopToggled
    \/ OnUnlockWithoutWorkshopToggled
    \/ OnIndividualUnlockToggled
    \/ OnBundleToggled

SpecPolicy == PolicyInit /\ [][PolicyNext]_vars

\* SpecMaster: the handlers of the window in behaviours that use the master
\* box, the category boxes and the item and bundle boxes
MasterInit ==
    /\ ProgramInit(TRUE)
    /\ subject = "master"
    /\ scanIn = NoScan
    /\ scanOut = [ done |-> FALSE, result |-> Nullopt ]

\* the faults of the bulk handlers: none, or the byte of the selectable item
\* or the last byte of the first bundle cannot be written
MasterFaults ==
    TableFaults({ UnlockItems["BlazefireSaber"].address,
                  Bundles["KookyChocobo"].addresses[2] })

\* the user toggles "UNLOCK ALL ITEMS"
OnUnlockAllToggled ==
    /\ ui.controlsEnabled
    /\ \E f \in MasterFaults :
          Commit(onUnlockAllToggled(Cur, f, ~ui.masterChecked),
                 "onUnlockAllToggled", OnOff(~ui.masterChecked))

\* the user toggles the box of a category of items (the permanently
\* disabled ones cannot be clicked)
OnCategoryToggled ==
    \E c \in Categories \ { "TwitchPrime" } :
        /\ CatEnabled(ui, c)
        /\ \E f \in MasterFaults :
              Commit(onCategoryToggled(Cur, f, c, ~ui.catChecked[c]),
                     "onCategoryToggled", c)

\* the user toggles "Enable All Twitch Prime Drops"
OnTwitchPrimeCategoryToggled ==
    /\ CatEnabled(ui, "TwitchPrime")
    /\ \E f \in MasterFaults :
          Commit(onTwitchPrimeCategoryToggled(Cur, f, ~ui.catChecked["TwitchPrime"]),
                 "onTwitchPrimeCategoryToggled", OnOff(~ui.catChecked["TwitchPrime"]))

\* the target of SpecMaster is the retail build
MasterNext ==
    \/ TargetStart("retail")
    \/ TargetExit
    \/ OnAttachClicked
    \/ OnDetachClicked
    \/ CheckForProcess
    \/ OnUnlockAllToggled
    \/ OnCategoryToggled
    \/ OnTwitchPrimeCategoryToggled
    \/ OnIndividualUnlockToggled
    \/ OnBundleToggled

SpecMaster == MasterInit /\ [][MasterNext]_vars

\* SpecUrl: the handlers of the window in behaviours that use the HTTP
\* server and the URL redirect next to the unlock controls
UrlInit ==
    /\ ProgramInit(TRUE)
    /\ subject = "url"
    /\ scanIn = NoScan
    /\ scanOut = [ done |-> FALSE, result |-> Nullopt ]

\* the user toggles "Enable HTTP Server (port 443)"
OnServerToggled ==
    \E f \in UrlFaults(Cur), binds \in BOOLEAN :
        Commit(onServerToggled(Cur, f, ~ui.serverCheck, binds),
               "onServerToggled", OnOff(~ui.serverCheck))

\* the user toggles "Redirect Twitch URLs to localhost"
OnURLRedirectToggled ==
    /\ ui.urlRedirectEnabled
    /\ \E f \in UrlFaults(Cur) :
          Commit(onURLRedirectToggled(Cur, f, ~ui.urlRedirectCheck),
                 "onURLRedirectToggled", OnOff(~ui.urlRedirectCheck))

\* the target of SpecUrl is the retail build
UrlNext ==
    \/ TargetStart("retail")
    \/ TargetExit
    \/ OnAttachClicked
    \/ OnDetachClicked
    \/ CheckForProcess
    \/ OnServerToggled
    \/ OnURLRedirectToggled
    \/ OnUnlockWithWorkshopToggled

SpecUrl == UrlInit /\ [][UrlNext]_vars

\* the last handler ran MemoryEditor::detach() and did not attach after it
DetachRan ==
    \E k \in DOMAIN last.signals :
        /\ last.signals[k] = << "processDetached" >>
        /\ \A j \in DOMAIN last.signals : j > k => last.signals[j][1] # "processAttached"

CallsOf(tr, op, p) == { k \in At(tr, "call") : tr[k][2] = op /\ tr[k][3] = p }

\* C27: within every handler the exclusives patches are applied root first
\* (applyPatch of Unlock 2 only after applyPatch of Unlock 1) and removed in
\* reverse (removePatch of Unlock 3, then Unlock 2, then Unlock 1, each only
\* if enabled, all before any applyPatch); when Unlock 2 is enabled the write
\* that restores Unlock 1's original bytes comes after the call of
\* removePatch for Unlock 2.
C27_ReverseRemoval ==
    [][ alive' = alive
        => LET tr == last'.trace
               restores1 == { k \in At(tr, "WriteProcessMemory") :
                                /\ tr[k][3] = Unlock1.original
                                /\ \E j \in CallsOf(tr, "removePatch", "Unlock1") : j < k }
           IN  /\ \A k \in CallsOf(tr, "applyPatch", "Unlock2") :
                    \E j \in CallsOf(tr, "applyPatch", "Unlock1") : j < k
               /\ \A k \in CallsOf(tr, "removePatch", "Unlock2") :
                    \A j \in CallsOf(tr, "removePatch", "Unlock3") : j < k
               /\ \A k \in CallsOf(tr, "removePatch", "Unlock1") :
                    \A j \in CallsOf(tr, "removePatch", "Unlock3")
                            \cup CallsOf(tr, "removePatch", "Unlock2") : j < k
               /\ \A k \in UNION { CallsOf(tr, "applyPatch", p) : p \in CallerPatches } :
                    \A j \in UNION { CallsOf(tr, "removePatch", p) : p \in CallerPatches } :
                        j < k
               /\ \A p \in CallerPatches :
                    /\ Cardinality(CallsOf(tr, "removePatch", p)) <= 1
                    /\ CallsOf(tr, "removePatch", p) # {} => penabled[p]
               /\ (penabled["Unlock2"] /\ restores1 # {})
                  => \E j \in CallsOf(tr, "removePatch", "Unlock2") :
                        \A k \in restores1 : j < k ]_vars

\* C27 witness: a handler has removed Unlock 2 and then Unlock 1, both
\* enabled before, and restored the bytes of both
C27_Witness ==
    /\ \E j \in CallsOf(last.trace, "removePatch", "Unlock2") :
       \E k \in CallsOf(last.trace, "removePatch", "Unlock1") : j < k
    /\ << "patchRemoved", "Unlock2" >> \in Range(last.signals)
    /\ << "patchRemoved", "Unlock1" >> \in Range(last.signals)
    /\ ~penabled["Unlock1"] /\ ~penabled["Unlock2"]

\* either Platform Exclusives box is checked
ExclusivesChecked(u) == u.withWorkshop \/ u.withoutWorkshop

\* the item and bundle boxes (and with them the master and category boxes)
\* are disabled and none is checked
ControlsOff(u) ==
    /\ ~u.controlsEnabled
    /\ \A i \in ItemNames : ~u.itemChecked[i]
    /\ \A b \in BundleNames : ~u.bundleChecked[b]

\* the step ran a handler that called applyPatch for an exclusives patch
AppliesExclusives ==
    /\ alive' = alive
    /\ \E p \in CallerPatches : CallsOf(last'.trace, "applyPatch", p) # {}

\* C28 (as claimed): while either Platform Exclusives box is checked the
\* other unlock controls are unchecked and disabled; when a handler applies
\* the exclusives patches every unlock item and bundle has been disabled;
\* and the controls are enabled again only with both boxes unchecked.
C28_ExclusivesTakeOver ==
    [][ /\ ExclusivesChecked(ui') => ControlsOff(ui')
        /\ AppliesExclusives
           => /\ \A i \in ItemNames : ~ienabled'[i]
              /\ \A b \in BundleNames : ~benabled'[b]
        /\ (~ui.controlsEnabled /\ ui'.controlsEnabled)
           => ~ExclusivesChecked(ui') ]_vars

\* the step is a run of the liveness poll that attached the engine
PollAttaches ==
    /\ alive' = alive
    /\ last'.op = "checkForProcess"
    /\ handle' # 0
    /\ handle' # handle

\* C30 (as claimed): after the user clicks Detach no liveness poll attaches
\* until the user clicks Attach, and whenever the engine holds a handle
\* auto-attach is on.
C30_ManualDetachSticks ==
    [][ /\ ui.manualDetach => ~PollAttaches
        /\ handle' # 0 => ui'.autoAttach ]_vars

\* the step is a run of the liveness poll that starts when the engine holds
\* the handle of a target that has exited
PollAfterExit ==
    /\ handle # 0
    /\ alive # handle
    /\ alive' = alive
    /\ last'.op = "checkForProcess"

\* C31: the first liveness poll after the target exited under the engine
\* releases the old handle, clears the pattern cache, emits processDetached
\* and leaves every patch, item and bundle flag false, whether or not it then
\* attaches to a new target.
C31_PollCleansUpExit ==
    [][ PollAfterExit
        => /\ handle' # handle
           /\ At(last'.trace, "CloseHandle") # {}
           /\ \E k \in DOMAIN last'.signals : last'.signals[k][1] = "processDetached"
           /\ cache' = << >>
           /\ \A p \in PatchNames : ~penabled'[p]
           /\ \A i \in ItemNames : ~ienabled'[i]
           /\ \A b \in BundleNames : ~benabled'[b] ]_vars

\* a poll released the handle of an exited target and attached to the new one
C31_Witness ==
    /\ last.op = "checkForProcess"
    /\ At(last.trace, "CloseHandle") # {}
    /\ At(last.trace, "OpenProcess") # {}
    /\ handle # 0
    /\ handle = alive

\* the step is a click on Detach that found the engine attached to a live
\* target
ManualDetach ==
    /\ handle # 0
    /\ handle = alive
    /\ alive' = alive
    /\ last'.op = "onDetachClicked"
    /\ handle' = 0

\* in trace tr every call of removePatch for p comes before every one for q
RemovedBefore(tr, p, q) ==
    \A j \in CallsOf(tr, "removePatch", p), k \in CallsOf(tr, "removePatch", q) : j < k

\* the step attempted to write `value` to the table byte at `address`
\* before it released the handle
ClearedFirst(tr, address) ==
    \E k \in At(tr, "VirtualProtectEx") :
        /\ tr[k][2] = address
        /\ \A c \in At(tr, "CloseHandle") : k < c

\* the cleaning part of a manual detach: every enabled item and bundle is
\* written, removePatch is called for every enabled patch, the URL patches
\* first, then Unlock 3, Unlock 2, Unlock 1, all before CloseHandle
CleansBeforeRelease ==
    LET tr == last'.trace
    IN  /\ \A i \in ItemNames : ienabled[i] => ClearedFirst(tr, UnlockItems[i].address)
        /\ \A b \in BundleNames :
              benabled[b] => \A a \in Range(Bundles[b].addresses) : ClearedFirst(tr, a)
        /\ \A p \in PatchNames :
              penabled[p]
              => /\ CallsOf(tr, "removePatch", p) # {}
                 /\ \A k \in CallsOf(tr, "removePatch", p), c \in At(tr, "CloseHandle") :
                       k < c
        /\ RemovedBefore(tr, "TwitchURL", "Unlock3")
        /\ RemovedBefore(tr, "TwitchURL", "Unlock2")
        /\ RemovedBefore(tr, "TwitchURL", "Unlock1")
        /\ RemovedBefore(tr, "Unlock3", "Unlock2")
        /\ RemovedBefore(tr, "Unlock2", "Unlock1")

\* no operation of the step reported an error
NoErrorInStep ==
    \A k \in DOMAIN last'.signals : last'.signals[k][1] # "errorOccurred"

\* the memory of the target equals the image of a build as it was loaded
Pristine(m) == m \in { LoadImage(b) : b \in Builds }

\* C32 (as claimed): a manual detach from a live target disables every
\* enabled item and bundle and removes every enabled patch (URL patches,
\* Unlock 3, Unlock 2, Unlock 1) before it releases the handle, and when all
\* of those writes succeed no byte of the target is still modified.
C32_DetachCleansTarget ==
    [][ ManualDetach
        => /\ CleansBeforeRelease
           /\ NoErrorInStep => Pristine(mem') ]_vars

\* the handler of the step touched the table byte at `address`: a protection
\* change for it or a write to it
Touched(tr, address) ==
    \/ \E k \in At(tr, "VirtualProtectEx") : tr[k][2] = address
    \/ \E k \in At(tr, "WriteProcessMemory") : tr[k][2] = address

\* C33: whatever the user does with the master, category, item and bundle
\* boxes, over any number of attach and detach cycles, the window never
\* writes to the byte of an unlock item whose selectable flag is false and
\* never sets its enabled flag.
C33_NonSelectableUntouched ==
    [][ \A i \in { j \in ItemNames : ~UnlockItems[j].selectable } :
          /\ ~ienabled'[i]
          /\ ~Touched(last'.trace, UnlockItems[i].address)
          /\ mem' # NoMem => mem'[UnlockItems[i].address] = 0 ]_vars

\* the master box was checked on the second instance of the target and
\* enabled the selectable item
C33_Witness ==
    /\ last.op = "onUnlockAllToggled"
    /\ last.arg = "on"
    /\ started = MaxInst
    /\ ienabled["BlazefireSaber"]
    /\ \A b \in BundleNames : benabled[b]

\* the step ran the toggle handler of an item, category or bundle box
BoxHandlerStep ==
    /\ alive' = alive
    /\ last'.op \in { "onIndividualUnlockToggled", "onCategoryToggled",
                      "onTwitchPrimeCategoryToggled", "onBundleToggled" }

\* the master box is checked iff every enabled category box is
MasterAgrees(u) ==
    u.masterChecked <=> \A c \in Categories : CatEnabled(u, c) => u.catChecked[c]

\* C34 (as claimed): when the toggle handler of an item, category or bundle
\* box has returned, the master box is checked iff every enabled category
\* box is checked, the permanently disabled categories being ignored.
C34_MasterConsistent ==
    [][ BoxHandlerStep => MasterAgrees(ui') ]_vars

\* a URL redirect patch is enabled
RedirectOn(pe) == \E p \in Range(URLPatches) : pe[p]

\* C35 (as claimed): whenever a URL redirect patch is enabled the HTTP server
\* is running and the engine is attached; the redirect is switched on only
\* while both hold; and a step that stops the server leaves no URL patch
\* enabled.
C35_RedirectNeedsServer ==
    [][ /\ RedirectOn(penabled')
           => ui'.listening /\ isAttached([ handle |-> handle', alive |-> alive' ])
        /\ (~RedirectOn(penabled) /\ RedirectOn(penabled'))
           => ui.listening /\ isAttached([ handle |-> handle, alive |-> alive ])
        /\ (ui.listening /\ ~ui'.listening) => ~RedirectOn(penabled') ]_vars

\* the processAttached / processDetached notifications among `sigs`, by name
SessionSignals(sigs) ==
    LET IsSession(sig) == sig[1] \in { "processAttached", "processDetached" }
        q == SelectSeq(sigs, IsSession)
    IN  [ k \in 1..Len(q) |-> q[k][1] ]

\* no two neighbours of q are the same
Alternates(q) == \A k \in 1..(Len(q) - 1) : q[k] # q[k + 1]

\* a step that is one call of the engine's API
EngineCall == alive' = alive

\* C36: the engine's processAttached and processDetached notifications
\* strictly alternate, starting with processAttached: the notifications of
\* one call alternate, the first of them is processAttached exactly when no
\* handle was held before the call (no session open, the last notification
\* was processDetached or there was none yet), the last of them is
\* processAttached exactly when a handle is held after it, and a call that
\* emits neither leaves the handle held or not held as it was.  detach() on
\* an engine holding no handle emits nothing, and attachToProcess called
\* while a handle is held emits processDetached before any processAttached.
C36_SessionSignalsAlternate ==
    [][ EngineCall =>
          \A q \in { SessionSignals(last'.signals) } :
            /\ Alternates(q)
            /\ IF q = << >>
               THEN (handle = 0) <=> (handle' = 0)
               ELSE /\ (q[1] = "processAttached") <=> (handle = 0)
                    /\ (q[Len(q)] = "processAttached") <=> (handle' # 0)
            /\ (last'.op = "detach" /\ handle = 0) => last'.signals = << >>
            /\ (last'.op = "attachToProcess" /\ handle # 0)
                 => /\ q # << >>
                    /\ q[1] = "processDetached" ]_vars

\* an attachToProcess called while a handle was held that closed the old
\* session and opened a new one
C36_Witness ==
    /\ subject = "session"
    /\ last.op = "attachToProcess"
    /\ SessionSignals(last.signals) = << "processDetached", "processAttached" >>
    /\ handle # 0

\* the target is live and the engine is attached to it
LiveAttached == handle # 0 /\ alive = handle

\* the places that can be the site of patch p in the attached target: the
\* one resolved from the address cached for p in this session, or, when none
\* is cached, any place of the module
SitesOf(p) ==
    IF p \in DOMAIN cache
    THEN { cache[p] + PatchDef(p).offset }
    ELSE { a \in DOMAIN mem : a + Len(PatchDef(p).patched) - 1 \in DOMAIN mem }

\* p.patched is at the site of p
PatchedAtSite(p) ==
    \E a \in SitesOf(p) :
        Bytes(mem, a, Len(PatchDef(p).patched)) = PatchDef(p).patched

\* C37 (as claimed): in every state where the target is live and attached,
\* a patch whose enabled flag is true has p.patched at its site and an
\* unlock item whose enabled flag is true has the byte 1 at its address
\* (the tool is the only writer of the target's memory in the model).
C37_FlagsAgreeWithMemory ==
    LiveAttached =>
        /\ \A p \in PatchNames : penabled[p] => PatchedAtSite(p)
        /\ \A i \in ItemNames : ienabled[i] => mem[UnlockItems[i].address] = 1

\* C38 (as claimed): in every state where the target is live and attached,
\* a bundle whose enabled flag is true has the byte 1 at every one of its
\* addresses (the tool is the only writer of the target's memory in the
\* model).
C38_BundleFlagsAgreeWithMemory ==
    LiveAttached =>
        \A b \in BundleNames :
            benabled[b] => \A a \in Range(Bundles[b].addresses) : mem[a] = 1

\* the VirtualProtectEx calls of the step, in program order
Protects ==
    LET IsProtect(c) == c[1] = "VirtualProtectEx"
    IN  SelectSeq(last'.trace, IsProtect)

\* the step's request to make the region writable was refused
RelaxationRefused == Protects # << >> /\ ~Protects[1][5]

\* C39 (as claimed): when applyPatch or removePatch returns failure, every
\* byte of the target has the value it had before the call, whether the
\* cause is a refused protection change or a write that transfers fewer
\* bytes than requested; and when the protection relaxation is refused no
\* write and no restoring protection change is attempted.
C39_FailedWriteLeavesBytes ==
    [][ \A p \in CallerPatches :
          (PatchStep(p) /\ ~last'.ok)
          => /\ mem' = mem
             /\ RelaxationRefused
                  => /\ At(last'.trace, "WriteProcessMemory") = {}
                     /\ Len(Protects) = 1 ]_vars

\* C29 (as claimed): in every reachable state Unlock 3 is not enabled at the
\* same time as Unlock 1 or Unlock 2.
C29_OptionsExclusive ==
    ~(penabled["Unlock3"] /\ (penabled["Unlock1"] \/ penabled["Unlock2"]))

\* C4 (as claimed): in every reachable state, if the Unlock 2 (Steam Bypass)
\* patch is enabled then the Unlock 1 (Bounds Bypass) patch is enabled.
C4_DependencySafe == penabled["Unlock2"] => penabled["Unlock1"]

----------------------------------------------------------------------------
(* SpecLoop: the thread of the window.  MainWindow, MemoryEditor and the    *)
(* poll timer are QObjects of the thread that runs QApplication::exec; the  *)
(* connections are direct.  A handler is started by the event loop, and an  *)
(* event loop runs in QApplication::exec and inside an open QMessageBox.    *)
(* A frame of loop.frames is a handler that has started and not returned:   *)
(* at "dialog" it waits in the Twitch Prime notice, at "engine" it is in    *)
(* its calls of the engine, at "slot" it is in an event loop run by a slot  *)
(* of a signal the engine emitted.                                          *)

\* timer expiry and the user's clicks
Events == { "timeout", "attachClicked", "detachClicked", "bundleToggled" }

\* the bundle whose box the user clicks
LoopBundle == "KookyChocobo"

\* (mutation) an onError that shows the message in a QMessageBox
SlotSpinsOnError(signal) == signal = "errorOccurred"

\* whether the slot connected to `signal` runs an event loop: the slots of
\* the engine's signals write a log line or set widget states
SlotSpins(signal) == FALSE

\* the thread is in an event loop, which delivers what is posted
Spinning ==
    IF loop.frames = << >>
    THEN TRUE
    ELSE loop.frames[Len(loop.frames)].at \in { "dialog", "slot" }

\* a modal box is open: the window takes no input
ModalOpen == \E k \in DOMAIN loop.frames : loop.frames[k].at \in { "dialog", "slot" }

\* the widget of the event takes a click
Clickable(ev) ==
    /\ ~ModalOpen
    /\ CASE ev = "attachClicked" -> ui.attachButton
         [] ev = "detachClicked" -> ui.detachButton
         [] ev = "bundleToggled" -> ui.controlsEnabled
         [] OTHER -> FALSE

LoopInit ==
    /\ ProgramInit(TRUE)
    /\ subject = "loop"
    /\ scanIn = NoScan
    /\ scanOut = [ done |-> FALSE, result |-> Nullopt ]

\* the 2 s timer expires, or the user clicks a widget: the event is posted
Post(ev) ==
    /\ ev \notin loop.queue
    /\ ev = "timeout" \/ Clickable(ev)
    /\ loop' = [ loop EXCEPT !.queue = @ \cup { ev } ]
    /\ UNCHANGED << alive, started, mem, prot, handle, cache, cacheInst, penabled,
                    ienabled, benabled, ui, subject, last, prev, scanIn, scanOut >>

\* the event loop delivers ev.  A click on a widget that takes none is
\* dropped.  onBundleToggled tests isAttached and shows the notice (once)
\* before it calls the engine; the other handlers go to their engine calls.
Dispatch(ev) ==
    /\ ev \in loop.queue
    /\ Spinning
    /\ LET checked == ~ui.bundleChecked[LoopBundle]
           started_ == ev = "timeout" \/ Clickable(ev)
           returns == ev = "bundleToggled" /\ ~isAttached(Cur)
           notice == ev = "bundleToggled" /\ checked /\ ~loop.warned
           frame == [ handler |-> ev, at |-> IF notice THEN "dialog" ELSE "engine" ]
       IN  /\ loop' = [ queue |-> loop.queue \ { ev },
                        frames |-> IF started_ /\ ~returns
                                   THEN Append(loop.frames, frame) ELSE loop.frames,
                        warned |-> loop.warned \/ (started_ /\ ~returns /\ notice) ]
           /\ ui' = IF started_ /\ ev = "bundleToggled"
                    THEN [ ui EXCEPT !.bundleChecked[LoopBundle] = checked ] ELSE ui
    /\ UNCHANGED << alive, started, mem, prot, handle, cache, cacheInst, penabled,
                    ienabled, benabled, subject, last, prev, scanIn, scanOut >>

\* the user closes the notice: the handler goes on to its engine call
DialogClosed ==
    /\ loop.frames # << >>
    /\ loop.frames[Len(loop.frames)].at = "dialog"
    /\ loop' = [ loop EXCEPT !.frames[Len(loop.frames)].at = "engine" ]
    /\ UNCHANGED << alive, started, mem, prot, handle, cache, cacheInst, penabled,
                    ienabled, benabled, ui, subject, last, prev, scanIn, scanOut >>

\* what the handler of ev does from its first engine call on
HandlerBody(ev, f, exits) ==
    CASE ev = "timeout" -> checkForProcess(Cur, f, exits)
      [] ev = "attachClicked" -> onAttachClicked(Cur, f)
      [] ev = "detachClicked" -> onDetachClicked(Cur, f)
      [] ev = "bundleToggled" -> IF ui.bundleChecked[LoopBundle]
                                 THEN enableBundle(Cur, f, LoopBundle)
                                 ELSE disableBundle(Cur, f, LoopBundle)

\* the faults the handler of ev is run under
LoopFaults(ev) ==
    CASE ev = "bundleToggled" -> TableFaults({ Bundles[LoopBundle].addresses[1] })
      [] ev = "detachClicked" -> { NoFault }
      [] OTHER -> { NoFault, OpenFault }

\* the handler on top of the stack runs its engine calls, the slots of the
\* signals they emit included, and returns
Run ==
    /\ loop.frames # << >>
    /\ \E top \in { loop.frames[Len(loop.frames)] } :
       \E f \in LoopFaults(top.handler),
          exits \in IF top.handler = "timeout" THEN BOOLEAN ELSE { FALSE } :
       \E r \in { HandlerBody(top.handler, f, exits) } :
          /\ top.at \in { "engine", "slot" }
          /\ IF top.at = "engine"
                /\ \E k \in DOMAIN r.signals : SlotSpins(r.signals[k][1])
             THEN /\ loop' = [ loop EXCEPT !.frames[Len(loop.frames)].at = "slot" ]
                  /\ UNCHANGED << alive, started, mem, prot, handle, cache, cacheInst,
                                  penabled, ienabled, benabled, ui, subject, last,
                                  prev, scanIn, scanOut >>
             ELSE /\ CommitState(r, top.handler, "")
                  /\ loop' = [ loop EXCEPT
                                 !.frames = SubSeq(@, 1, Len(loop.frames) - 1) ]

LoopNext ==
    \/ \E b \in Builds : TargetStart(b)
    \/ TargetExit
    \/ \E ev \in Events : Post(ev)
    \/ \E ev \in Events : Dispatch(ev)
    \/ DialogClosed
    \/ Run

SpecLoop == LoopInit /\ [][LoopNext]_vars

\* the frame is inside an engine operation that has not returned
InFlight(fr) == fr.at \in { "engine", "slot" }

\* C22: no handler (the poll checkForProcess, Attach, Detach or any other)
\* starts while an engine operation is in flight: between the start and the
\* return of the engine calls of one handler the thread delivers no event,
\* so an operation in flight is always on top of the stack and alone.
C22_NoPollDuringOperation ==
    [][ /\ Len(loop.frames') > Len(loop.frames)
           => \A k \in DOMAIN loop.frames : ~InFlight(loop.frames[k])
        /\ \A k \in DOMAIN loop.frames' :
             InFlight(loop.frames'[k]) => k = Len(loop.frames') ]_vars

\* C22 witness: the timer has expired while the engine calls of the bundle
\* handler are in flight; the poll is posted and waits
C22_Witness ==
    /\ loop.frames # << >>
    /\ loop.frames[Len(loop.frames)] = [ handler |-> "bundleToggled", at |-> "engine" ]
    /\ "timeout" \in loop.queue
    /\ isAttached(Cur)

----------------------------------------------------------------------------
(* SpecScan: findPattern applied to every bounded input *)

ScanBytes == { 0, 1 }

SeqsUpTo(S, n) == UNION { [ 1..k -> S ] : k \in 0..n }

\* the unreadable part of a range of n bytes at `start`: nothing, or one run
\* of addresses
Runs(start, n) ==
    { {} } \cup { a..b : a \in start..(start + n - 1), b \in start..(start + n - 1) }

ScanInputs ==
    { [ mem |-> [ a \in start..(start + Len(data) - 1) |-> data[a - start + 1] ],
        start |-> start, size |-> Len(data), unreadable |-> u,
        pattern |-> pat, chunk |-> c ] :
        data \in SeqsUpTo(ScanBytes, MaxScanLen), start \in 0..1,
        u \in Runs(0, MaxScanLen + 1), pat \in SeqsUpTo(ScanBytes, MaxPatLen),
        c \in 1..MaxChunk }

ScanInit ==
    /\ ProgramInit(FALSE)
    /\ subject = "scanner"
    /\ scanIn \in { i \in ScanInputs : i.unreadable \subseteq DOMAIN i.mem }
    /\ scanOut = [ done |-> FALSE, result |-> Nullopt ]

\* the harness calls findPattern once, with a valid process handle
Scan ==
    /\ ~scanOut.done
    /\ scanOut' = [ done |-> TRUE,
                    result |-> findPatternChunked(1, scanIn.mem, scanIn.unreadable,
                                                  scanIn.start, scanIn.size,
                                                  scanIn.pattern, scanIn.chunk) ]
    /\ UNCHANGED << alive, started, mem, prot, handle, cache, cacheInst, penabled,
                    ienabled, benabled, ui, subject, last, prev, scanIn, loop >>

ScanNext == Scan

SpecScan == ScanInit /\ [][ScanNext]_vars

\* the offsets k at which the signature occurs entirely inside the range
Occurrences(i) ==
    { k \in 0..(i.size - Len(i.pattern)) :
        \A j \in 1..Len(i.pattern) : i.mem[i.start + k + j - 1] = i.pattern[j] }

\* the chunk an offset belongs to
ChunkOf(i, k) == k \div i.chunk

\* chunk c of the range is readable: none of its bytes is unreadable
ReadableChunk(i, c) ==
    \A k \in 0..(i.size - 1) : ChunkOf(i, k) = c => (i.start + k) \notin i.unreadable

\* the occurrences that lie wholly inside one readable chunk
OccurrencesInReadableChunk(i) ==
    { k \in Occurrences(i) :
        /\ ChunkOf(i, k) = ChunkOf(i, k + Len(i.pattern) - 1)
        /\ ReadableChunk(i, ChunkOf(i, k)) }

\* C6: on a fully readable range, for every signature length >= 1 and every
\* chunk size >= 1, findPattern returns start + k for the lowest offset k at
\* which the signature occurs inside the range, and not-found iff there is
\* no occurrence.
C6_BoundaryIndependence ==
    (scanOut.done /\ scanIn.unreadable = {} /\ Len(scanIn.pattern) >= 1)
    => scanOut.result = IF Occurrences(scanIn) = {}
                        THEN Nullopt
                        ELSE scanIn.start + SetMin(Occurrences(scanIn))

\* C6 witness: a match that starts in one chunk and ends in a later one, of a
\* signature longer than a chunk, was returned.
C6_Witness ==
    /\ scanOut.done
    /\ scanOut.result # Nullopt
    /\ scanIn.unreadable = {}
    /\ Len(scanIn.pattern) > scanIn.chunk
    /\ scanOut.result - scanIn.start > 0
    /\ ChunkOf(scanIn, scanOut.result - scanIn.start)
         # ChunkOf(scanIn, scanOut.result - scanIn.start + Len(scanIn.pattern) - 1)

\* C7 (as claimed): whichever chunks are unreadable, an occurrence that lies
\* wholly inside a readable chunk is never missed: findPattern returns it or
\* a lower occurrence.
C7_ReadableChunkNeverMissed ==
    (scanOut.done /\ Len(scanIn.pattern) >= 1)
    => \A k \in OccurrencesInReadableChunk(scanIn) :
          scanOut.result # Nullopt /\ scanOut.result <= scanIn.start + k

============================================================================
